---- MODULE Spec2Model ----
(***************************************************************************)
(* Model of the todo-api-backend: the token manager (pkg/jwt), the         *)
(* password hasher (pkg/password), the authorization gate                   *)
(* (internal/middleware), the HTTP handlers (internal/handler), the auth    *)
(* and todo services (internal/service) and the relational store behind     *)
(* the repositories (internal/repository, migrations/001_init.sql).         *)
(*                                                                          *)
(* Time is counted in milliseconds.  A store call is one atomic step; the   *)
(* code that runs between two store calls of one request touches only       *)
(* request-local data and is folded into the step that follows it.          *)
(***************************************************************************)
EXTENDS Integers, Sequences, FiniteSets, TLC

(***************************************************************************)
(* Bounds of the model                                                      *)
(***************************************************************************)
\* number of rows the todos table's SERIAL key hands out
MaxTodos == 2
\* number of times the wall clock advances
MaxTicks == 1
\* number of rows the users table's SERIAL key hands out
MaxUsers == 2

\* the requests served in parallel (one goroutine each)
Procs == {"p1", "p2"}

(***************************************************************************)
(* Program constants                                                        *)
(***************************************************************************)
MillisPerSecond == 1000
SecondsPerHour == 3600
\* JWT_EXPIRATION default, in hours
JWTExpiration == 24
BearerPrefix == "Bearer "
JWTSecret == "server-secret"
HMACFamily == {"HS256", "HS384", "HS512"}

\* HTTP status codes
StatusOK == 200
StatusCreated == 201
StatusNoContent == 204
StatusBadRequest == 400
StatusUnauthorized == 401
StatusNotFound == 404
StatusConflict == 409
StatusInternalServerError == 500
StatusServiceUnavailable == 503

\* wall clock at the start of the run, and the length of one clock step
StartTime == 90000000
TickMillis == 1500

(***************************************************************************)
(* pkg/jwt: TokenManager                                                    *)
(*                                                                          *)
(* A token string is modelled by what its three segments decode to: the     *)
(* header's alg, the key its signature verifies under, and the claims.      *)
(* form = "garbage" is a string that is not three base64 segments.          *)
(***************************************************************************)
\* jwt.NewNumericDate: truncates a time to whole seconds
NewNumericDate(t) == t \div MillisPerSecond

\* the time a NumericDate stands for, in milliseconds
NumericDateTime(d) == d * MillisPerSecond

\* NewTokenManager: expiration = expirationHours * time.Hour
ExpirationMillis(expirationHours) == expirationHours * SecondsPerHour * MillisPerSecond

\* NewTokenManager: the expiration is kept as a time.Duration
NewTokenManager(secretKey, expirationHours) ==
    [key |-> secretKey, expiration |-> ExpirationMillis(expirationHours)]

\* cmd/server: the manager made from the configuration
ServerTokenManager == NewTokenManager(JWTSecret, JWTExpiration)

NoClaims == [user_id |-> 0, email |-> "", iat |-> 0, nbf |-> 0, exp |-> 0]

GarbageToken == [key |-> "", form |-> "garbage", alg |-> "", claims |-> NoClaims]

EmptyToken == [key |-> "", form |-> "empty", alg |-> "", claims |-> NoClaims]

\* mutant: the expiration taken for seconds where the clock counts milliseconds
GenerateToken_WrongUnit(tm, userID, email, now) ==
    [key |-> tm.key, form |-> "jwt", alg |-> "HS256",
     claims |-> [user_id |-> userID, email |-> email,
                 iat |-> NewNumericDate(now),
                 nbf |-> NewNumericDate(now),
                 exp |-> NewNumericDate(now + tm.expiration \div MillisPerSecond)]]

\* GenerateToken on manager tm at time now
GenerateToken(tm, userID, email, now) ==
    [key |-> tm.key, form |-> "jwt", alg |-> "HS256",
     claims |-> [user_id |-> userID, email |-> email,
                 iat |-> NewNumericDate(now),
                 nbf |-> NewNumericDate(now),
                 exp |-> NewNumericDate(now + tm.expiration)]]

\* jwt.Validator: exp is checked with now.Before(exp), nbf with !now.Before(nbf)
ClaimsErrors(claims, now) ==
    (IF now < NumericDateTime(claims.exp) THEN {} ELSE {"ErrTokenExpired"})
    \cup (IF now >= NumericDateTime(claims.nbf) THEN {} ELSE {"ErrTokenNotValidYet"})

\* mutant: the claims are validated before the signature is verified, and the
\* errors of both are reported together
ParseWithClaims_ClaimsFirst(secretKey, token, now) ==
    IF token.form # "jwt" THEN {"ErrTokenMalformed"}
    ELSE IF token.alg \notin HMACFamily THEN {"ErrTokenUnverifiable"}
    ELSE IF token.key # secretKey
    THEN {"ErrTokenSignatureInvalid"} \cup ClaimsErrors(token.claims, now)
    ELSE ClaimsErrors(token.claims, now)

\* mutant: the keyfunc hands out the secret whatever the signing method is,
\* and a method that is not HMAC accepts the signature
ParseWithClaims_AnyMethod(secretKey, token, now) ==
    IF token.form # "jwt" THEN {"ErrTokenMalformed"}
    ELSE IF token.alg \in HMACFamily /\ token.key # secretKey
    THEN {"ErrTokenSignatureInvalid"}
    ELSE ClaimsErrors(token.claims, now)

\* the error set jwt.ParseWithClaims returns with the keyfunc of ValidateToken:
\* the signature is verified first, the claims are validated after it
ParseWithClaims(secretKey, token, now) ==
    IF token.form # "jwt" THEN {"ErrTokenMalformed"}
    ELSE IF token.alg \notin HMACFamily THEN {"ErrTokenUnverifiable"}
    ELSE IF token.key # secretKey THEN {"ErrTokenSignatureInvalid"}
    ELSE ClaimsErrors(token.claims, now)

\* mutant: an expired token reported like any other failure
ValidateToken_ExpiredAsInvalid(tm, token, now) ==
    LET errs == ParseWithClaims(tm.key, token, now) IN
    IF errs # {}
    THEN [claims |-> NoClaims, err |-> "ErrInvalidToken"]
    ELSE [claims |-> token.claims, err |-> "nil"]

\* ValidateToken on manager tm at time now
ValidateToken(tm, token, now) ==
    LET errs == ParseWithClaims(tm.key, token, now) IN
    IF errs # {}
    THEN IF "ErrTokenExpired" \in errs
         THEN [claims |-> NoClaims, err |-> "ErrExpiredToken"]
         ELSE [claims |-> NoClaims, err |-> "ErrInvalidToken"]
    ELSE [claims |-> token.claims, err |-> "nil"]

\* no GenerateToken call yet, no ValidateToken call since the last one
NoIssue == [email |-> "", userID |-> 0, token |-> EmptyToken, at |-> 0]

NoValidation == [claims |-> NoClaims, err |-> "", at |-> 0, done |-> FALSE]

(***************************************************************************)
(* internal/middleware: AuthMiddleware                                      *)
(*                                                                          *)
(* An Authorization header value is prefix \o rest: prefix is the text up   *)
(* to and including the first space ("" when there is none) and rest is     *)
(* the token string that follows (EmptyToken for the empty string).         *)
(***************************************************************************)
NoHeader == [prefix |-> "", rest |-> EmptyToken]

HeaderIsEmpty(h) == h.prefix = "" /\ h.rest.form = "empty"

HasPrefix(h, p) == h.prefix = p

TrimPrefix(h, p) == IF HasPrefix(h, p) THEN [prefix |-> "", rest |-> h.rest] ELSE h

\* the token string a header value is: one with a space in it is no JWT
TokenString(h) == IF h.prefix = "" THEN h.rest ELSE GarbageToken

NoIdentity == [user_id |-> 0, present |-> FALSE, user_email |-> ""]

\* model.UserInfo
NoUserInfo == [email |-> "", id |-> 0, created_at |-> 0, updated_at |-> 0]

NoAuth == [token |-> EmptyToken, user |-> NoUserInfo]

\* ErrorResponse.Details: no key
NoDetails == [k \in {} |-> ""]

\* model.HealthResponse
NoHealth == [status |-> "", database |-> "", time |-> 0]

\* A response is its status and its JSON body: an error (slug and message),
\* one todo, a todo list with its count, a token with a user view, or nothing.
ErrorResponse(status, slug, message) ==
    [status |-> status, message |-> message, error |-> slug, kind |-> "error",
     todos |-> <<>>, count |-> 0, auth |-> NoAuth,
     details |-> NoDetails, health |-> NoHealth]

TodoResponse(status, todo) ==
    [status |-> status, message |-> "", error |-> "", kind |-> "todo",
     todos |-> <<todo>>, count |-> 0, auth |-> NoAuth,
     details |-> NoDetails, health |-> NoHealth]

TodoListResponse(list) ==
    [status |-> StatusOK, message |-> "", error |-> "", kind |-> "list",
     todos |-> list, count |-> Len(list), auth |-> NoAuth,
     details |-> NoDetails, health |-> NoHealth]

\* model.AuthResponse
AuthResponse(status, token, userInfo) ==
    [status |-> status, message |-> "", error |-> "", kind |-> "auth",
     todos |-> <<>>, count |-> 0, auth |-> [token |-> token, user |-> userInfo],
     details |-> NoDetails, health |-> NoHealth]

EmptyResponse(status) ==
    [status |-> status, message |-> "", error |-> "", kind |-> "empty",
     todos |-> <<>>, count |-> 0, auth |-> NoAuth,
     details |-> NoDetails, health |-> NoHealth]

\* nothing written yet
NoResponse == [status |-> 0, message |-> "", error |-> "", kind |-> "none",
               todos |-> <<>>, count |-> 0, auth |-> NoAuth,
     details |-> NoDetails, health |-> NoHealth]

Unauthorized(message) == ErrorResponse(StatusUnauthorized, "unauthorized", message)

TokenErrorMessage(err) ==
    CASE err = "ErrExpiredToken" -> "Token has expired"
      [] err = "ErrInvalidToken" -> "Invalid token"
      [] err = "ErrTokenClaims" -> "Invalid token claims"
      [] OTHER -> "Token validation failed"

\* mutant: a failed validation is not answered, the chain goes on
AuthMiddleware_NoAbort(h, now) ==
    IF HeaderIsEmpty(h)
    THEN [aborted |-> TRUE, ctx |-> NoIdentity,
          response |-> Unauthorized("Authorization header is required")]
    ELSE IF ~HasPrefix(h, BearerPrefix)
    THEN [aborted |-> TRUE, ctx |-> NoIdentity,
          response |-> Unauthorized("Authorization header must start with 'Bearer '")]
    ELSE IF HeaderIsEmpty(TrimPrefix(h, BearerPrefix))
    THEN [aborted |-> TRUE, ctx |-> NoIdentity,
          response |-> Unauthorized("Token is required")]
    ELSE LET v == ValidateToken(ServerTokenManager,
                                TokenString(TrimPrefix(h, BearerPrefix)), now) IN
         [aborted |-> FALSE,
          ctx |-> [user_id |-> v.claims.user_id, present |-> v.err = "nil",
                   user_email |-> v.claims.email],
          response |-> NoResponse]

\* the gate: aborted = c.Abort() was called, ctx = the keys set on the context
AuthMiddleware(h, now) ==
    IF HeaderIsEmpty(h)
    THEN [aborted |-> TRUE, ctx |-> NoIdentity,
          response |-> Unauthorized("Authorization header is required")]
    ELSE IF ~HasPrefix(h, BearerPrefix)
    THEN [aborted |-> TRUE, ctx |-> NoIdentity,
          response |-> Unauthorized("Authorization header must start with 'Bearer '")]
    ELSE IF HeaderIsEmpty(TrimPrefix(h, BearerPrefix))
    THEN [aborted |-> TRUE, ctx |-> NoIdentity,
          response |-> Unauthorized("Token is required")]
    ELSE LET v == ValidateToken(ServerTokenManager,
                                TokenString(TrimPrefix(h, BearerPrefix)), now) IN
         IF v.err # "nil"
         THEN [aborted |-> TRUE, ctx |-> NoIdentity,
               response |-> Unauthorized(TokenErrorMessage(v.err))]
         ELSE [aborted |-> FALSE,
               ctx |-> [user_id |-> v.claims.user_id, present |-> TRUE,
                        user_email |-> v.claims.email],
               response |-> NoResponse]

\* middleware.GetUserID
GetUserID(ctx) == IF ~ctx.present THEN [id |-> 0, ok |-> FALSE]
                  ELSE [id |-> ctx.user_id, ok |-> TRUE]

(***************************************************************************)
(* The store: the users and todos tables                                    *)
(***************************************************************************)
VARIABLES
    users,       \* users table: id -> row
    nextUserId,  \* users.id SERIAL
    todos,       \* todos table: id -> row
    nextTodoId,  \* todos.id SERIAL
    now,         \* wall clock, milliseconds
    pc,          \* per request goroutine: where it stands
    local,       \* per request goroutine: its request and local variables
    resp,        \* the request the last step answered, with its response
    tokenManager,\* the TokenManager: its secret key and expiration
    issued,      \* the last GenerateToken call on it: arguments, time, token
    validated,   \* the last ValidateToken call on it: time and result
    bcryptVersion, \* what the linked x/crypto/bcrypt does with a long password
    hashed,      \* the last HashPassword call: arguments and result
    verified     \* the last VerifyPassword call: arguments and result

tokenVars == <<tokenManager, issued, validated>>

hashVars == <<bcryptVersion, hashed, verified>>

vars == <<users, nextUserId, todos, nextTodoId, now, pc, local, resp, tokenVars, hashVars>>

NoTodo == [user_id |-> 0, id |-> 0, created_at |-> 0, title |-> "",
           description |-> "", completed |-> FALSE]

\* errors are modelled by the text err.Error() returns
ErrRecordNotFound == "record not found"
ErrTodoNotFound == "todo not found"
ErrUnauthorizedAccess == "unauthorized access to todo"
ErrUserNotFound == "user not found"
ErrForeignKey == "violates foreign key constraint"
Wrap(msg, err) == msg \o ": " \o err

(***************************************************************************)
(* internal/repository: userRepository, todoRepository                      *)
(***************************************************************************)
UserRepo_GetByID(usersTbl, id) ==
    IF id \in DOMAIN usersTbl THEN [err |-> "nil"] ELSE [err |-> ErrRecordNotFound]

\* INSERT: the SERIAL key and autoCreateTime fill id and created_at
TodoRepo_Create(usersTbl, tbl, nextId, todo, t) ==
    IF todo.user_id \notin DOMAIN usersTbl
    THEN [err |-> ErrForeignKey, todo |-> todo, tbl |-> tbl, nextId |-> nextId + 1]
    ELSE LET row == [todo EXCEPT !.id = nextId, !.created_at = t] IN
         [err |-> "nil", todo |-> row,
          tbl |-> [i \in DOMAIN tbl \cup {nextId} |-> IF i = nextId THEN row ELSE tbl[i]],
          nextId |-> nextId + 1]

\* mutant: the WHERE clause without its user_id condition
TodoRepo_GetByID_AnyOwner(tbl, id, userID) ==
    IF id \in DOMAIN tbl
    THEN [err |-> "nil", todo |-> tbl[id]]
    ELSE [err |-> ErrRecordNotFound, todo |-> NoTodo]

\* WHERE id = ? AND user_id = ?
TodoRepo_GetByID(tbl, id, userID) ==
    IF id \in DOMAIN tbl /\ tbl[id].user_id = userID
    THEN [err |-> "nil", todo |-> tbl[id]]
    ELSE [err |-> ErrRecordNotFound, todo |-> NoTodo]

IsPermutationOf(seq, S) ==
    /\ Len(seq) = Cardinality(S)
    /\ {seq[i] : i \in DOMAIN seq} = S

\* mutant: the query without its WHERE clause
TodoRepo_GetByUserID_AllRows(tbl, userID) ==
    LET ids == DOMAIN tbl IN
    {[i \in DOMAIN order |-> tbl[order[i]]] :
        order \in {o \in UNION {[1..n -> ids] : n \in {Cardinality(ids)}} :
                     /\ IsPermutationOf(o, ids)
                     /\ \A i, j \in DOMAIN o :
                           i < j => tbl[o[i]].created_at >= tbl[o[j]].created_at}}

\* mutant: ORDER BY created_at, the oldest first
TodoRepo_GetByUserID_OldestFirst(tbl, userID) ==
    LET ids == {i \in DOMAIN tbl : tbl[i].user_id = userID} IN
    {[i \in DOMAIN order |-> tbl[order[i]]] :
        order \in {o \in UNION {[1..n -> ids] : n \in {Cardinality(ids)}} :
                     /\ IsPermutationOf(o, ids)
                     /\ \A i, j \in DOMAIN o :
                           i < j => tbl[o[i]].created_at <= tbl[o[j]].created_at}}

\* WHERE user_id = ? ORDER BY created_at DESC: every order of the rows that
\* the ORDER BY allows (rows of equal created_at come in any order)
TodoRepo_GetByUserID(tbl, userID) ==
    LET ids == {i \in DOMAIN tbl : tbl[i].user_id = userID} IN
    {[i \in DOMAIN order |-> tbl[order[i]]] :
        order \in {o \in UNION {[1..n -> ids] : n \in {Cardinality(ids)}} :
                     /\ IsPermutationOf(o, ids)
                     /\ \A i, j \in DOMAIN o :
                           i < j => tbl[o[i]].created_at >= tbl[o[j]].created_at}}

\* db.Save: UPDATE of every column by primary key, INSERT when no row matched
TodoRepo_Update(tbl, todo) ==
    [err |-> "nil",
     tbl |-> [i \in DOMAIN tbl \cup {todo.id} |-> IF i = todo.id THEN todo ELSE tbl[i]]]

\* DELETE ... WHERE id = ? AND user_id = ?
TodoRepo_Delete(tbl, id, userID) ==
    IF id \in DOMAIN tbl /\ tbl[id].user_id = userID
    THEN [err |-> "nil", tbl |-> [i \in DOMAIN tbl \ {id} |-> tbl[i]]]
    ELSE [err |-> ErrRecordNotFound, tbl |-> tbl]

(***************************************************************************)
(* internal/service: todoService                                            *)
(***************************************************************************)
\* mutant: the todo is stored without the check that its user exists
TodoService_Create_NoUserCheck(usersTbl, tbl, nextId, req, userID, t) ==
    LET todo == [NoTodo EXCEPT !.title = req.title, !.description = req.description,
                                !.user_id = userID, !.completed = FALSE]
        r == TodoRepo_Create(usersTbl, tbl, nextId, todo, t) IN
    IF r.err # "nil"
    THEN [err |-> Wrap("failed to create todo", r.err), todo |-> NoTodo,
          tbl |-> r.tbl, nextId |-> r.nextId]
    ELSE [err |-> "nil", todo |-> r.todo, tbl |-> r.tbl, nextId |-> r.nextId]

TodoService_Create(usersTbl, tbl, nextId, req, userID, t) ==
    IF UserRepo_GetByID(usersTbl, userID).err # "nil"
    THEN [err |-> ErrUserNotFound, todo |-> NoTodo, tbl |-> tbl, nextId |-> nextId]
    ELSE LET todo == [NoTodo EXCEPT !.title = req.title, !.description = req.description,
                                    !.user_id = userID, !.completed = FALSE]
             r == TodoRepo_Create(usersTbl, tbl, nextId, todo, t) IN
         IF r.err # "nil"
         THEN [err |-> Wrap("failed to create todo", r.err), todo |-> NoTodo,
               tbl |-> r.tbl, nextId |-> r.nextId]
         ELSE [err |-> "nil", todo |-> r.todo, tbl |-> r.tbl, nextId |-> r.nextId]

\* mockTodoRepo.On("GetByID", ctx, todoID, userID).Return(todo, nil) for a
\* todo stored under todoID, Return(nil, gorm.ErrRecordNotFound) for none
MockTodoRepo_GetByID(tbl, id, userID) ==
    IF id \in DOMAIN tbl
    THEN [err |-> "nil", todo |-> tbl[id]]
    ELSE [err |-> ErrRecordNotFound, todo |-> NoTodo]

\* the TodoRepository a service is made on with NewTodoService: the server's
\* GORM repository or the mock of the service's tests
GormRepo == "gorm"
MockRepo == "mock"

TodoRepository_GetByID(repo, tbl, id, userID) ==
    IF repo = MockRepo THEN MockTodoRepo_GetByID(tbl, id, userID)
    ELSE TodoRepo_GetByID(tbl, id, userID)

\* GetByID of a service made on the repository repo
TodoService_GetByID_With(repo, tbl, id, userID) ==
    LET r == TodoRepository_GetByID(repo, tbl, id, userID) IN
    IF r.err # "nil" THEN [err |-> ErrTodoNotFound, todo |-> NoTodo]
    ELSE IF r.todo.user_id # userID THEN [err |-> ErrUnauthorizedAccess, todo |-> NoTodo]
    ELSE [err |-> "nil", todo |-> r.todo]

\* the server's service: made on the GORM repository
TodoService_GetByID(tbl, id, userID) ==
    TodoService_GetByID_With(GormRepo, tbl, id, userID)

\* mutant: a user without todos is reported as an error
TodoService_GetByUserID_EmptyIsError(usersTbl, tbl, userID) ==
    IF UserRepo_GetByID(usersTbl, userID).err # "nil"
    THEN {[err |-> ErrUserNotFound, todos |-> <<>>]}
    ELSE {IF l = <<>> THEN [err |-> ErrTodoNotFound, todos |-> <<>>]
          ELSE [err |-> "nil", todos |-> l] : l \in TodoRepo_GetByUserID(tbl, userID)}

\* the results the call can give: one per order the store may return
TodoService_GetByUserID(usersTbl, tbl, userID) ==
    IF UserRepo_GetByID(usersTbl, userID).err # "nil"
    THEN {[err |-> ErrUserNotFound, todos |-> <<>>]}
    ELSE {[err |-> "nil", todos |-> l] : l \in TodoRepo_GetByUserID(tbl, userID)}

\* mutant: every field is taken from the request, an absent one as its zero
\* value
TodoService_UpdateFetch_Overwrites(tbl, id, req, userID) ==
    LET r == TodoRepo_GetByID(tbl, id, userID) IN
    IF r.err # "nil" THEN [err |-> ErrTodoNotFound, todo |-> NoTodo]
    ELSE IF r.todo.user_id # userID THEN [err |-> ErrUnauthorizedAccess, todo |-> NoTodo]
    ELSE [err |-> "nil",
          todo |-> [r.todo EXCEPT !.title = req.title.value,
                                  !.description = req.description.value,
                                  !.completed = req.completed.value]]

\* mutant: the fetch by id alone, the ownership re-check left out
TodoService_UpdateFetch_Unscoped(tbl, id, req, userID) ==
    IF id \notin DOMAIN tbl THEN [err |-> ErrTodoNotFound, todo |-> NoTodo]
    ELSE [err |-> "nil",
          todo |-> [tbl[id] EXCEPT
                      !.title = IF req.title.present THEN req.title.value ELSE @,
                      !.description = IF req.description.present
                                      THEN req.description.value ELSE @,
                      !.completed = IF req.completed.present
                                    THEN req.completed.value ELSE @]]

\* Update, up to the store write: the scoped fetch, the ownership re-check
\* and the merge of the request's fields into the fetched record, of a
\* service made on the repository repo
TodoService_UpdateFetch_With(repo, tbl, id, req, userID) ==
    LET r == TodoRepository_GetByID(repo, tbl, id, userID) IN
    IF r.err # "nil" THEN [err |-> ErrTodoNotFound, todo |-> NoTodo]
    ELSE IF r.todo.user_id # userID THEN [err |-> ErrUnauthorizedAccess, todo |-> NoTodo]
    ELSE [err |-> "nil",
          todo |-> [r.todo EXCEPT
                      !.title = IF req.title.present THEN req.title.value ELSE @,
                      !.description = IF req.description.present
                                      THEN req.description.value ELSE @,
                      !.completed = IF req.completed.present
                                    THEN req.completed.value ELSE @]]

\* mutant: the todo is fetched by id alone and handed to the caller
TodoService_UpdateFetch_TakesOver(tbl, id, req, userID) ==
    IF id \notin DOMAIN tbl THEN [err |-> ErrTodoNotFound, todo |-> NoTodo]
    ELSE [err |-> "nil",
          todo |-> [tbl[id] EXCEPT
                      !.user_id = userID,
                      !.title = IF req.title.present THEN req.title.value ELSE @,
                      !.description = IF req.description.present
                                      THEN req.description.value ELSE @,
                      !.completed = IF req.completed.present
                                    THEN req.completed.value ELSE @]]

\* the server's service: made on the GORM repository
TodoService_UpdateFetch(tbl, id, req, userID) ==
    TodoService_UpdateFetch_With(GormRepo, tbl, id, req, userID)

\* Update, the store write and the return
TodoService_UpdateSave(tbl, existingTodo) ==
    LET r == TodoRepo_Update(tbl, existingTodo) IN
    IF r.err # "nil"
    THEN [err |-> Wrap("failed to update todo", r.err), todo |-> NoTodo, tbl |-> r.tbl]
    ELSE [err |-> "nil", todo |-> existingTodo, tbl |-> r.tbl]

\* Delete, the existence check
TodoService_DeleteFetch(tbl, id, userID) ==
    LET r == TodoRepo_GetByID(tbl, id, userID) IN
    IF r.err # "nil" THEN [err |-> ErrTodoNotFound] ELSE [err |-> "nil"]

\* Delete, the scoped delete and the return
TodoService_DeleteExec(tbl, id, userID) ==
    LET r == TodoRepo_Delete(tbl, id, userID) IN
    IF r.err # "nil"
    THEN [err |-> Wrap("failed to delete todo", r.err), tbl |-> r.tbl]
    ELSE [err |-> "nil", tbl |-> r.tbl]

(***************************************************************************)
(* internal/handler: the todo endpoints                                     *)
(***************************************************************************)
NotAuthenticated == ErrorResponse(StatusUnauthorized, "unauthorized", "User not authenticated")

TodoNotFoundResponse == ErrorResponse(StatusNotFound, "not_found", "Todo not found")

\* strconv.ParseUint(idStr, 10, 32) on a path parameter given as its characters
DigitValue(c) ==
    CASE c = "0" -> 0 [] c = "1" -> 1 [] c = "2" -> 2 [] c = "3" -> 3 [] c = "4" -> 4
      [] c = "5" -> 5 [] c = "6" -> 6 [] c = "7" -> 7 [] c = "8" -> 8 [] c = "9" -> 9
      [] OTHER -> -1

RECURSIVE ParseDigits(_, _)
ParseDigits(chars, acc) ==
    IF chars = <<>> THEN acc
    ELSE ParseDigits(Tail(chars), acc * 10 + DigitValue(Head(chars)))

ParseUint(chars) ==
    IF chars = <<>> \/ \E i \in DOMAIN chars : DigitValue(chars[i]) < 0
    THEN [ok |-> FALSE, value |-> 0]
    ELSE [ok |-> TRUE, value |-> ParseDigits(chars, 0)]

InvalidID == ErrorResponse(StatusBadRequest, "invalid_id", "Invalid todo ID format")

InvalidJSON == ErrorResponse(StatusBadRequest, "invalid_request", "Invalid JSON format")

ValidationFailed == ErrorResponse(StatusBadRequest, "validation_failed", "Invalid input data")

\* A JSON body: malformed, or an object whose keys title, description and
\* completed are each present or absent, with its user_id (0 = absent), email
\* and password keys ("" = absent).
Absent(zero) == [present |-> FALSE, value |-> zero]

Present(v) == [present |-> TRUE, value |-> v]

NoBody == [user_id |-> 0, email |-> "", title |-> Absent(""),
           description |-> Absent(""), completed |-> Absent(FALSE),
           malformed |-> FALSE, password |-> ""]

MalformedBody == [NoBody EXCEPT !.malformed = TRUE]

\* c.ShouldBindJSON into CreateTodoRequest: an absent key leaves the zero
\* value, the keys the struct does not declare (completed, user_id) are dropped
BindCreateTodoRequest(body) ==
    IF body.malformed THEN [ok |-> FALSE, req |-> [title |-> "", description |-> ""]]
    ELSE [ok |-> TRUE, req |-> [title |-> body.title.value,
                                description |-> body.description.value]]

\* validate:"required,min=1,max=255" on Title, "max=1000" on Description
ValidCreateTodoRequest(req) ==
    Len(req.title) >= 1 /\ Len(req.title) <= 255 /\ Len(req.description) <= 1000

\* c.ShouldBindJSON into UpdateTodoRequest: a key that is absent leaves a nil pointer
BindUpdateTodoRequest(body) ==
    IF body.malformed
    THEN [ok |-> FALSE, req |-> [title |-> Absent(""), description |-> Absent(""),
                                 completed |-> Absent(FALSE)]]
    ELSE [ok |-> TRUE, req |-> [title |-> body.title, description |-> body.description,
                                completed |-> body.completed]]

ValidUpdateTodoRequest(req) ==
    /\ req.title.present => Len(req.title.value) >= 1 /\ Len(req.title.value) <= 255
    /\ req.description.present => Len(req.description.value) <= 1000

\* the error switches of the handlers
CreateTodoError(err) ==
    ErrorResponse(StatusInternalServerError, "creation_failed", "Failed to create todo")

GetTodosError(err) ==
    ErrorResponse(StatusInternalServerError, "retrieval_failed", "Failed to retrieve todos")

GetTodoError(err) ==
    IF err = "todo not found" THEN TodoNotFoundResponse
    ELSE ErrorResponse(StatusInternalServerError, "retrieval_failed", "Failed to retrieve todo")

UpdateTodoError(err) ==
    IF err = "todo not found" THEN TodoNotFoundResponse
    ELSE ErrorResponse(StatusInternalServerError, "update_failed", "Failed to update todo")

DeleteTodoError(err) ==
    IF err = "todo not found" THEN TodoNotFoundResponse
    ELSE ErrorResponse(StatusInternalServerError, "deletion_failed", "Failed to delete todo")

(***************************************************************************)
(* One request through the handlers chain of its route.  What a handler     *)
(* returns: the response, whether and with which userID and id it called    *)
(* the service, and what the call made of the store.                        *)
(***************************************************************************)
NoRequest == [id |-> <<>>, body |-> NoBody, route |-> "", header |-> NoHeader]

NoUser == [email |-> "", id |-> 0, created_at |-> 0, updated_at |-> 0,
           password |-> [key |-> "", salt |-> ""]]

NoLocal == [userID |-> 0, at |-> 0, id |-> 0, user |-> NoUser, todo |-> NoTodo, req |-> NoRequest]

\* cmd/server registerProtectedRoutes: the gate runs before every todo
\* handler; route "bare" is a handler run on a context no gate has filled
RunGate(req, t) ==
    IF req.route = "gated" THEN AuthMiddleware(req.header, t)
    ELSE [aborted |-> FALSE, ctx |-> NoIdentity, response |-> NoResponse]

Answer(http, tbl, nextId) ==
    [userID |-> 0, err |-> "", done |-> TRUE, id |-> 0, todo |-> NoTodo, tbl |-> tbl,
     nextId |-> nextId, http |-> http, service |-> FALSE]

\* mutant: a user_id key of the body is taken for the caller's id
CreateTodo_TrustsBody(ctx, req, usersTbl, tbl, nextId, t) ==
    LET u == GetUserID(ctx)
        b == BindCreateTodoRequest(req.body)
        uid == IF req.body.user_id # 0 THEN req.body.user_id ELSE u.id IN
    IF ~u.ok THEN Answer(NotAuthenticated, tbl, nextId)
    ELSE IF ~b.ok THEN Answer(InvalidJSON, tbl, nextId)
    ELSE IF ~ValidCreateTodoRequest(b.req) THEN Answer(ValidationFailed, tbl, nextId)
    ELSE LET r == TodoService_Create(usersTbl, tbl, nextId, b.req, uid, t) IN
         [Answer(IF r.err # "nil" THEN CreateTodoError(r.err)
                 ELSE TodoResponse(StatusCreated, r.todo), r.tbl, r.nextId)
          EXCEPT !.service = TRUE, !.userID = uid, !.err = r.err]

CreateTodo(ctx, req, usersTbl, tbl, nextId, t) ==
    LET u == GetUserID(ctx)
        b == BindCreateTodoRequest(req.body) IN
    IF ~u.ok THEN Answer(NotAuthenticated, tbl, nextId)
    ELSE IF ~b.ok THEN Answer(InvalidJSON, tbl, nextId)
    ELSE IF ~ValidCreateTodoRequest(b.req) THEN Answer(ValidationFailed, tbl, nextId)
    ELSE LET r == TodoService_Create(usersTbl, tbl, nextId, b.req, u.id, t) IN
         [Answer(IF r.err # "nil" THEN CreateTodoError(r.err)
                 ELSE TodoResponse(StatusCreated, r.todo), r.tbl, r.nextId)
          EXCEPT !.service = TRUE, !.userID = u.id, !.err = r.err]

\* the answers GetTodos can give (one per order the store may return)
GetTodos(ctx, req, usersTbl, tbl, nextId) ==
    LET u == GetUserID(ctx) IN
    IF ~u.ok THEN {Answer(NotAuthenticated, tbl, nextId)}
    ELSE {[Answer(IF r.err # "nil" THEN GetTodosError(r.err)
                  ELSE TodoListResponse(r.todos), tbl, nextId)
           EXCEPT !.service = TRUE, !.userID = u.id, !.err = r.err] :
             r \in TodoService_GetByUserID(usersTbl, tbl, u.id)}

\* GetTodo of a Handler whose services.Todo is made on the repository repo
GetTodo_With(repo, ctx, req, tbl, nextId) ==
    LET u == GetUserID(ctx)
        id == ParseUint(req.id) IN
    IF ~u.ok THEN Answer(NotAuthenticated, tbl, nextId)
    ELSE IF ~id.ok THEN Answer(InvalidID, tbl, nextId)
    ELSE LET r == IF repo = GormRepo THEN TodoService_GetByID(tbl, id.value, u.id)
                  ELSE TodoService_GetByID_With(repo, tbl, id.value, u.id) IN
         [Answer(IF r.err # "nil" THEN GetTodoError(r.err)
                 ELSE TodoResponse(StatusOK, r.todo), tbl, nextId)
          EXCEPT !.service = TRUE, !.userID = u.id, !.id = id.value, !.err = r.err]

\* the server's handler
GetTodo(ctx, req, tbl, nextId) == GetTodo_With(GormRepo, ctx, req, tbl, nextId)

\* UpdateTodo up to the store write of the service's Update: done = FALSE
\* when the service goes on to the write with the merged todo; of a Handler
\* whose services.Todo is made on the repository repo
UpdateTodo_With(repo, ctx, req, tbl, nextId) ==
    LET u == GetUserID(ctx)
        id == ParseUint(req.id)
        b == BindUpdateTodoRequest(req.body) IN
    IF ~u.ok THEN Answer(NotAuthenticated, tbl, nextId)
    ELSE IF ~id.ok THEN Answer(InvalidID, tbl, nextId)
    ELSE IF ~b.ok THEN Answer(InvalidJSON, tbl, nextId)
    ELSE IF ~ValidUpdateTodoRequest(b.req) THEN Answer(ValidationFailed, tbl, nextId)
    ELSE LET r == IF repo = GormRepo
                  THEN TodoService_UpdateFetch(tbl, id.value, b.req, u.id)
                  ELSE TodoService_UpdateFetch_With(repo, tbl, id.value, b.req, u.id) IN
         [Answer(IF r.err # "nil" THEN UpdateTodoError(r.err) ELSE NoResponse, tbl, nextId)
          EXCEPT !.service = TRUE, !.userID = u.id, !.id = id.value, !.err = r.err,
                 !.done = (r.err # "nil"), !.todo = r.todo]

\* the server's handler
UpdateTodo(ctx, req, tbl, nextId) ==
    UpdateTodo_With(GormRepo, ctx, req, tbl, nextId)

\* the fields of model.UpdateTodoRequest
UpdateFields == {"title", "description", "completed"}

\* mutant: the write is refused when the stored row no longer has, in a
\* field the request lacks, the value the Update read
UpdateTodoSave_Conflict(tbl, loc) ==
    IF /\ loc.id \in DOMAIN tbl
       /\ \E f \in UpdateFields :
             ~loc.req.body[f].present /\ tbl[loc.id][f] # loc.todo[f]
    THEN [err |-> Wrap("failed to update todo", "stale record"),
          tbl |-> tbl, http |-> UpdateTodoError("stale record")]
    ELSE LET r == TodoService_UpdateSave(tbl, loc.todo) IN
         [err |-> r.err,
          tbl |-> r.tbl, http |-> TodoResponse(StatusOK, r.todo)]

\* mutant: the write sets only the columns the request has
UpdateTodoSave_PresentColumns(tbl, loc) ==
    LET row == IF loc.id \in DOMAIN tbl
               THEN [f \in DOMAIN NoTodo |->
                       IF f \in UpdateFields /\ loc.req.body[f].present
                       THEN loc.todo[f] ELSE tbl[loc.id][f]]
               ELSE loc.todo
        r == TodoService_UpdateSave(tbl, row) IN
    [err |-> r.err,
     tbl |-> r.tbl, http |-> TodoResponse(StatusOK, r.todo)]

\* UpdateTodo from the store write on
UpdateTodoSave(tbl, loc) ==
    LET r == TodoService_UpdateSave(tbl, loc.todo) IN
    [err |-> r.err,
     tbl |-> r.tbl, http |-> IF r.err # "nil" THEN UpdateTodoError(r.err)
              ELSE TodoResponse(StatusOK, r.todo)]

\* DeleteTodo up to the scoped delete of the service's Delete
DeleteTodo(ctx, req, tbl, nextId) ==
    LET u == GetUserID(ctx)
        id == ParseUint(req.id) IN
    IF ~u.ok THEN Answer(NotAuthenticated, tbl, nextId)
    ELSE IF ~id.ok THEN Answer(InvalidID, tbl, nextId)
    ELSE LET r == TodoService_DeleteFetch(tbl, id.value, u.id) IN
         [Answer(IF r.err # "nil" THEN DeleteTodoError(r.err) ELSE NoResponse, tbl, nextId)
          EXCEPT !.service = TRUE, !.userID = u.id, !.id = id.value, !.err = r.err,
                 !.done = (r.err # "nil")]

\* DeleteTodo from the scoped delete on
DeleteTodoExec(tbl, loc) ==
    LET r == TodoService_DeleteExec(tbl, loc.id, loc.userID) IN
    [err |-> r.err,
     tbl |-> r.tbl, http |-> IF r.err # "nil" THEN DeleteTodoError(r.err)
              ELSE EmptyResponse(StatusNoContent)]

(***************************************************************************)
(* internal/handler: health and readiness; internal/database: HealthCheck   *)
(***************************************************************************)
\* what sqlDB.PingContext returns when the database does not answer
PingErrors ==
    {"dial tcp 127.0.0.1:5432: connect: connection refused", "context deadline exceeded"}

\* the results of database.HealthCheck
Database_HealthCheck ==
    {"nil", "database connection is not initialized"}
    \cup {Wrap("database health check failed", e) : e \in PingErrors}

\* time.Now().UTC().Format(time.RFC3339): the time to the second
FormatRFC3339(t) == t \div MillisPerSecond

HealthResponse(status, database, t) ==
    [EmptyResponse(StatusOK) EXCEPT
       !.kind = "health",
       !.health = [status |-> status, database |-> database, time |-> FormatRFC3339(t)]]

\* Handler.HealthCheck, dbErr being what database.HealthCheck returned
HealthCheck(dbErr, t) ==
    IF dbErr # "nil"
    THEN [ErrorResponse(StatusServiceUnavailable, "service_unavailable",
                        "Database health check failed")
            EXCEPT !.details = [database_error |-> dbErr]]
    ELSE HealthResponse("ok", "connected", t)

\* Handler.ReadinessCheck
ReadinessCheck(dbErr, t) ==
    IF dbErr # "nil"
    THEN [ErrorResponse(StatusServiceUnavailable, "service_unavailable",
                        "Service is not ready to serve requests")
            EXCEPT !.details = [database_error |-> dbErr, database_status |-> "not_ready"]]
    ELSE HealthResponse("ready", "ready", t)

(***************************************************************************)
(* pkg/password: Hasher                                                     *)
(*                                                                          *)
(* A bcrypt hash is modelled by its salt and the password it was made of;   *)
(* the model reads the password back out of a hash only to compare.         *)
(***************************************************************************)
MinPasswordLength == 8
MaxPasswordLength == 128

\* bcrypt's key schedule reads the first 72 bytes of a password
BcryptMaxBytes == 72

ErrHashingFailed == "password hashing failed"
ErrInvalidPassword == "invalid password"
ErrVerificationFailed == "password verification failed"

\* the string of n times the character c
RECURSIVE Repeat(_, _)
Repeat(c, n) ==
    IF n = 0 THEN ""
    ELSE IF n % 2 = 0 THEN LET half == Repeat(c, n \div 2) IN half \o half
    ELSE c \o Repeat(c, n - 1)

\* The passwords longer than 72 bytes are written head \o tail, the head
\* being the 72 bytes bcrypt reads.
Heads72 == {Repeat("a", BcryptMaxBytes), "b" \o Repeat("a", BcryptMaxBytes - 1)}

Tails == {"b", "c", Repeat("a", MaxPasswordLength - BcryptMaxBytes),
          Repeat("a", MaxPasswordLength - BcryptMaxBytes - 1) \o "b",
          Repeat("a", MaxPasswordLength - BcryptMaxBytes + 1)}

\* the bytes of a password that reach bcrypt's key schedule
First72(password) ==
    IF Len(password) <= BcryptMaxBytes THEN password
    ELSE CHOOSE h \in Heads72 : \E t \in Tails : password = h \o t

\* GenerateFromPassword of a password longer than 72 bytes: a release of
\* x/crypto either hashes its first 72 bytes or returns ErrPasswordTooLong
BcryptVersions == {"truncates", "rejects"}

NoHash == [key |-> "", salt |-> ""]

\* bcrypt.GenerateFromPassword with a fresh salt
Bcrypt_GenerateFromPassword(password, salt) ==
    IF bcryptVersion = "rejects" /\ Len(password) > BcryptMaxBytes
    THEN [err |-> "ErrPasswordTooLong", hash |-> NoHash]
    ELSE [err |-> "nil", hash |-> [key |-> First72(password), salt |-> salt]]

\* bcrypt.CompareHashAndPassword: a string that is no bcrypt hash is refused,
\* a password is compared by the bytes the key schedule reads
Bcrypt_CompareHashAndPassword(hash, password) ==
    IF hash.salt = "" THEN "ErrHashTooShort"
    ELSE IF hash.key = First72(password) THEN "nil"
    ELSE "ErrMismatchedHashAndPassword"

\* mutant: the lower bound itself refused
HashPassword_MinExclusive(password, salt) ==
    IF Len(password) <= MinPasswordLength
    THEN [err |-> ErrInvalidPassword, hash |-> NoHash]
    ELSE IF Len(password) > MaxPasswordLength
    THEN [err |-> ErrInvalidPassword, hash |-> NoHash]
    ELSE LET r == Bcrypt_GenerateFromPassword(password, salt) IN
         IF r.err # "nil" THEN [err |-> ErrHashingFailed, hash |-> NoHash]
         ELSE [err |-> "nil", hash |-> r.hash]

HashPassword(password, salt) ==
    IF Len(password) < MinPasswordLength
    THEN [err |-> ErrInvalidPassword, hash |-> NoHash]
    ELSE IF Len(password) > MaxPasswordLength
    THEN [err |-> ErrInvalidPassword, hash |-> NoHash]
    ELSE LET r == Bcrypt_GenerateFromPassword(password, salt) IN
         IF r.err # "nil" THEN [err |-> ErrHashingFailed, hash |-> NoHash]
         ELSE [err |-> "nil", hash |-> r.hash]

VerifyPassword(hashedPassword, password) ==
    IF Len(password) < MinPasswordLength THEN ErrInvalidPassword
    ELSE IF Len(password) > MaxPasswordLength THEN ErrInvalidPassword
    ELSE IF Bcrypt_CompareHashAndPassword(hashedPassword, password) # "nil"
    THEN ErrVerificationFailed
    ELSE "nil"

ValidatePasswordStrength(password) ==
    IF Len(password) < MinPasswordLength THEN ErrInvalidPassword
    ELSE IF Len(password) > MaxPasswordLength THEN ErrInvalidPassword
    ELSE "nil"

\* no HashPassword call yet, no VerifyPassword call since the last one
NoHashCall == [err |-> "", done |-> FALSE, password |-> "", salt |-> "", hash |-> NoHash]

NoVerifyCall == [err |-> "", done |-> FALSE, password |-> "", hash |-> NoHash]

(***************************************************************************)
(* internal/repository: userRepository; internal/model: User                *)
(***************************************************************************)
ErrDuplicateKey == "duplicate key value violates unique constraint"

\* WHERE email = ?
UserRepo_GetByEmail(usersTbl, email) ==
    IF \E i \in DOMAIN usersTbl : usersTbl[i].email = email
    THEN [err |-> "nil",
          user |-> usersTbl[CHOOSE i \in DOMAIN usersTbl : usersTbl[i].email = email]]
    ELSE [err |-> ErrRecordNotFound, user |-> NoUser]

\* mutant: the table without its UNIQUE constraint on email
UserRepo_Create_NoUnique(usersTbl, nextId, user, t) ==
    LET row == [user EXCEPT !.id = nextId, !.created_at = t, !.updated_at = t] IN
    [err |-> "nil", user |-> row,
     tbl |-> [i \in DOMAIN usersTbl \cup {nextId} |->
                IF i = nextId THEN row ELSE usersTbl[i]],
     nextId |-> nextId + 1]

\* INSERT: autoCreateTime and autoUpdateTime fill the timestamps; the SERIAL
\* key is drawn first and is not given back when the UNIQUE constraint on
\* email rejects the row
UserRepo_Create(usersTbl, nextId, user, t) ==
    IF \E i \in DOMAIN usersTbl : usersTbl[i].email = user.email
    THEN [err |-> ErrDuplicateKey, user |-> user, tbl |-> usersTbl, nextId |-> nextId + 1]
    ELSE LET row == [user EXCEPT !.id = nextId, !.created_at = t, !.updated_at = t] IN
         [err |-> "nil", user |-> row,
          tbl |-> [i \in DOMAIN usersTbl \cup {nextId} |->
                     IF i = nextId THEN row ELSE usersTbl[i]],
          nextId |-> nextId + 1]

\* mutant: the view keeps the password column
ToUserInfo_WithPassword(u) ==
    [email |-> u.email, id |-> u.id, created_at |-> u.created_at,
     updated_at |-> u.updated_at, password |-> u.password]

ToUserInfo(u) ==
    [email |-> u.email, id |-> u.id, created_at |-> u.created_at,
     updated_at |-> u.updated_at]

(***************************************************************************)
(* internal/service: authService                                            *)
(***************************************************************************)
ErrEmailAlreadyExists == "email already exists"
ErrInvalidCredentials == "invalid email or password"

\* mutant: the password is checked before the email is looked up
AuthService_RegisterLookup_PasswordFirst(usersTbl, req, salt) ==
    LET existing == UserRepo_GetByEmail(usersTbl, req.email)
        h == HashPassword(req.password, salt) IN
    IF ValidatePasswordStrength(req.password) # "nil"
    THEN [err |-> Wrap("password validation failed", ValidatePasswordStrength(req.password)),
          user |-> NoUser]
    ELSE IF existing.err = "nil" THEN [err |-> ErrEmailAlreadyExists, user |-> NoUser]
    ELSE IF h.err # "nil"
    THEN [err |-> Wrap("failed to hash password", h.err), user |-> NoUser]
    ELSE [err |-> "nil", user |-> [NoUser EXCEPT !.email = req.email, !.password = h.hash]]

\* Register up to the store's create: the lookup by email, the password
\* check and the hashing
AuthService_RegisterLookup(usersTbl, req, salt) ==
    LET existing == UserRepo_GetByEmail(usersTbl, req.email)
        h == HashPassword(req.password, salt) IN
    IF existing.err = "nil" THEN [err |-> ErrEmailAlreadyExists, user |-> NoUser]
    ELSE IF ValidatePasswordStrength(req.password) # "nil"
    THEN [err |-> Wrap("password validation failed", ValidatePasswordStrength(req.password)),
          user |-> NoUser]
    ELSE IF h.err # "nil"
    THEN [err |-> Wrap("failed to hash password", h.err), user |-> NoUser]
    ELSE [err |-> "nil", user |-> [NoUser EXCEPT !.email = req.email, !.password = h.hash]]

\* Register from the store's create on
AuthService_RegisterCreate(usersTbl, nextId, user, t) ==
    LET r == UserRepo_Create(usersTbl, nextId, user, t) IN
    IF r.err # "nil"
    THEN [err |-> Wrap("failed to create user", r.err), auth |-> NoAuth,
          tbl |-> r.tbl, nextId |-> r.nextId]
    ELSE [err |-> "nil",
          auth |-> [token |-> GenerateToken(ServerTokenManager, r.user.id,
                                            r.user.email, t),
                    user |-> ToUserInfo(r.user)],
          tbl |-> r.tbl, nextId |-> r.nextId]

\* mutant: an unknown email is reported as such
AuthService_Login_UserNotFound(usersTbl, req, t) ==
    LET r == UserRepo_GetByEmail(usersTbl, req.email) IN
    IF r.err # "nil" THEN [err |-> ErrUserNotFound, auth |-> NoAuth]
    ELSE IF VerifyPassword(r.user.password, req.password) # "nil"
    THEN [err |-> ErrInvalidCredentials, auth |-> NoAuth]
    ELSE [err |-> "nil",
          auth |-> [token |-> GenerateToken(ServerTokenManager, r.user.id,
                                            r.user.email, t),
                    user |-> ToUserInfo(r.user)]]

AuthService_Login(usersTbl, req, t) ==
    LET r == UserRepo_GetByEmail(usersTbl, req.email) IN
    IF r.err # "nil" THEN [err |-> ErrInvalidCredentials, auth |-> NoAuth]
    ELSE IF VerifyPassword(r.user.password, req.password) # "nil"
    THEN [err |-> ErrInvalidCredentials, auth |-> NoAuth]
    ELSE [err |-> "nil",
          auth |-> [token |-> GenerateToken(ServerTokenManager, r.user.id,
                                            r.user.email, t),
                    user |-> ToUserInfo(r.user)]]

(***************************************************************************)
(* internal/handler: Register, Login                                        *)
(***************************************************************************)
\* the strings the validator's email rule accepts, among those the model sends
WellFormedEmails == {"a@example.com", "b@example.com", "c@example.com"}

\* c.ShouldBindJSON into RegisterRequest or LoginRequest
BindAuthRequest(body) ==
    IF body.malformed THEN [ok |-> FALSE, req |-> [email |-> "", password |-> ""]]
    ELSE [ok |-> TRUE, req |-> [email |-> body.email, password |-> body.password]]

\* validate:"required,email" on Email, "required,min=8" on Password
ValidRegisterRequest(req) ==
    /\ req.email # "" /\ req.email \in WellFormedEmails
    /\ req.password # "" /\ Len(req.password) >= 8

\* validate:"required,email" on Email, "required" on Password
ValidLoginRequest(req) ==
    /\ req.email # "" /\ req.email \in WellFormedEmails
    /\ req.password # ""

\* mutant: the switch matches another text than the service's error
RegisterError_OtherText(err) ==
    IF err = "email exists"
    THEN ErrorResponse(StatusConflict, "email_exists",
                       "An account with this email already exists")
    ELSE ErrorResponse(StatusInternalServerError, "registration_failed",
                       "Failed to create user account")

RegisterError(err) ==
    IF err = "email already exists"
    THEN ErrorResponse(StatusConflict, "email_exists",
                       "An account with this email already exists")
    ELSE ErrorResponse(StatusInternalServerError, "registration_failed",
                       "Failed to create user account")

LoginError(err) ==
    IF err \in {"invalid credentials", "user not found"}
    THEN ErrorResponse(StatusUnauthorized, "invalid_credentials", "Invalid email or password")
    ELSE ErrorResponse(StatusInternalServerError, "login_failed",
                       "Failed to authenticate user")

AuthAnswer(http) ==
    [err |-> "", done |-> TRUE, user |-> NoUser, http |-> http, service |-> FALSE]

\* Register up to the store's create of the service's Register
Register(req, usersTbl, salt) ==
    LET b == BindAuthRequest(req.body) IN
    IF ~b.ok THEN AuthAnswer(InvalidJSON)
    ELSE IF ~ValidRegisterRequest(b.req) THEN AuthAnswer(ValidationFailed)
    ELSE LET r == AuthService_RegisterLookup(usersTbl, b.req, salt) IN
         [err |-> r.err,
          done |-> (r.err # "nil"),
          user |-> r.user,
          http |-> IF r.err # "nil" THEN RegisterError(r.err) ELSE NoResponse, service |-> TRUE]

\* Register from the store's create on
RegisterCreate(usersTbl, nextId, loc, t) ==
    LET r == AuthService_RegisterCreate(usersTbl, nextId, loc.user, t) IN
    [err |-> r.err, tbl |-> r.tbl, nextId |-> r.nextId,
     http |-> IF r.err # "nil" THEN RegisterError(r.err)
              ELSE AuthResponse(StatusCreated, r.auth.token, r.auth.user)]

Login(req, usersTbl, t) ==
    LET b == BindAuthRequest(req.body) IN
    IF ~b.ok THEN AuthAnswer(InvalidJSON)
    ELSE IF ~ValidLoginRequest(b.req) THEN AuthAnswer(ValidationFailed)
    ELSE LET r == AuthService_Login(usersTbl, b.req, t) IN
         [AuthAnswer(IF r.err # "nil" THEN LoginError(r.err)
                     ELSE AuthResponse(StatusOK, r.auth.token, r.auth.user))
          EXCEPT !.service = TRUE, !.err = r.err]

(***************************************************************************)
(* The requests the model sends                                             *)
(***************************************************************************)
UserIds == {1, 2}

Email(u) == CASE u = 1 -> "a@example.com" [] u = 2 -> "b@example.com"
              [] OTHER -> "c@example.com"

\* tokens of the two registered users and of an id without a users row,
\* issued half a second before the run starts
ValidTokens ==
    {GenerateToken(ServerTokenManager, u, Email(u), StartTime - 500) : u \in 1..3}

\* issued one expiration window before the run starts
ExpiredToken ==
    GenerateToken(ServerTokenManager, 1, Email(1),
                  StartTime - ExpirationMillis(JWTExpiration))

ForgedToken ==
    GenerateToken(NewTokenManager("other-secret", JWTExpiration), 2, Email(2), StartTime - 500)

UnsignedToken == [GenerateToken(ServerTokenManager, 2, Email(2), StartTime - 500)
                    EXCEPT !.alg = "none"]

\* valid when the run starts, expired one second later
AgingToken ==
    GenerateToken(ServerTokenManager, 1, Email(1),
                  StartTime - ExpirationMillis(JWTExpiration) + MillisPerSecond)

Bearer(token) == [prefix |-> BearerPrefix, rest |-> token]

GoodHeaders == {Bearer(t) : t \in ValidTokens}

BadHeaders ==
    {NoHeader, [prefix |-> "Basic ", rest |-> CHOOSE t \in ValidTokens : t.claims.user_id = 1],
     [prefix |-> "", rest |-> CHOOSE t \in ValidTokens : t.claims.user_id = 1],
     Bearer(EmptyToken), Bearer(GarbageToken), Bearer(ExpiredToken), Bearer(AgingToken),
     Bearer(ForgedToken), Bearer(UnsignedToken)}

DigitChars == <<"1", "2", "3", "4", "5", "6", "7", "8", "9">>

\* the ids the SERIAL key hands out and the next one, as path parameters
IdParams == {<<DigitChars[i]>> : i \in 1..(MaxTodos + 1)}

\* {"title":"X","description":"Y"}, alone and with a completed key
CreateBodies ==
    {[NoBody EXCEPT !.title = Present("X"), !.description = Present("Y"), !.completed = c] :
        c \in {Absent(FALSE), Present(TRUE)}}

UpdateBody(t, d, c) == [NoBody EXCEPT !.title = t, !.description = d, !.completed = c]

\* {"completed":true}, {"title":"Z","description":"W","completed":true} and
\* {"title":"Z"}
UpdateBodies ==
    {UpdateBody(Absent(""), Absent(""), Present(TRUE)),
     UpdateBody(Present("Z"), Present("W"), Present(TRUE)),
     UpdateBody(Present("Z"), Absent(""), Absent(FALSE))}

Request(route, header, id, body) ==
    [id |-> id, body |-> body, route |-> route, header |-> header]

\* the requests of authenticated clients
CreateRequests == {Request("gated", h, <<>>, b) : h \in GoodHeaders, b \in CreateBodies}
ListRequests == {Request("gated", h, <<>>, NoBody) : h \in GoodHeaders}
GetRequests == {Request("gated", h, i, NoBody) : h \in GoodHeaders, i \in IdParams}
UpdateRequests ==
    {Request("gated", h, i, b) : h \in GoodHeaders, i \in IdParams, b \in UpdateBodies}
DeleteRequests == GetRequests

(***************************************************************************)
(* Actions: one per endpoint, plus the second step of the two endpoints     *)
(* whose service makes two store calls                                      *)
(***************************************************************************)
\* the last step answered no request
NoRecord == [userID |-> 0, err |-> "", at |-> 0, id |-> 0, req |-> NoRequest,
             http |-> NoResponse, service |-> FALSE, proc |-> "", op |-> "", handler |-> FALSE]

Served(g, out) == IF g.aborted THEN Answer(g.response, todos, nextTodoId) ELSE out

\* at = the time the request arrived
Record(p, op, req, g, a) ==
    [userID |-> a.userID, err |-> a.err, at |-> now, id |-> a.id, req |-> req,
     http |-> a.http,
     service |-> a.service, proc |-> p, op |-> op, handler |-> ~g.aborted]

HttpCreateTodo(p, Reqs) ==
    /\ pc[p] = "idle"
    /\ \E req \in Reqs :
         LET g == RunGate(req, now)
             a == Served(g, CreateTodo(g.ctx, req, users, todos, nextTodoId, now)) IN
         /\ a.nextId <= MaxTodos + 1
         /\ todos' = a.tbl
         /\ nextTodoId' = a.nextId
         /\ resp' = Record(p, "CreateTodo", req, g, a)
    /\ UNCHANGED <<users, nextUserId, now, pc, local>>
    /\ UNCHANGED <<tokenVars, hashVars>>

HttpGetTodos(p, Reqs) ==
    /\ pc[p] = "idle"
    /\ \E req \in Reqs :
         LET g == RunGate(req, now) IN
         \E a \in (IF g.aborted THEN {Answer(g.response, todos, nextTodoId)}
                   ELSE GetTodos(g.ctx, req, users, todos, nextTodoId)) :
            resp' = Record(p, "GetTodos", req, g, a)
    /\ UNCHANGED <<users, nextUserId, todos, nextTodoId, now, pc, local>>
    /\ UNCHANGED <<tokenVars, hashVars>>

\* GET /api/v1/todos/:id served by a Handler whose services.Todo is made on
\* the repository repo
HttpGetTodo_By(repo, p, Reqs) ==
    /\ pc[p] = "idle"
    /\ \E req \in Reqs :
         LET g == RunGate(req, now)
             a == Served(g, IF repo = GormRepo THEN GetTodo(g.ctx, req, todos, nextTodoId)
                            ELSE GetTodo_With(repo, g.ctx, req, todos, nextTodoId)) IN
         resp' = Record(p, "GetTodo", req, g, a)
    /\ UNCHANGED <<users, nextUserId, todos, nextTodoId, now, pc, local>>
    /\ UNCHANGED <<tokenVars, hashVars>>

HttpGetTodo(p, Reqs) == HttpGetTodo_By(GormRepo, p, Reqs)

\* PUT /api/v1/todos/:id, up to the store write, served by a Handler whose
\* services.Todo is made on the repository repo
HttpUpdateTodo_By(repo, p, Reqs) ==
    /\ pc[p] = "idle"
    /\ \E req \in Reqs :
         LET g == RunGate(req, now)
             a == Served(g, IF repo = GormRepo
                            THEN UpdateTodo(g.ctx, req, todos, nextTodoId)
                            ELSE UpdateTodo_With(repo, g.ctx, req, todos, nextTodoId)) IN
         IF a.done
         THEN /\ resp' = Record(p, "UpdateTodo", req, g, a)
              /\ UNCHANGED <<pc, local>>
         ELSE /\ pc' = [pc EXCEPT ![p] = "update_save"]
              /\ local' = [local EXCEPT ![p] = [NoLocal EXCEPT !.req = req, !.at = now,
                                                        !.userID = a.userID,
                                                        !.id = a.id, !.todo = a.todo]]
              /\ resp' = NoRecord
    /\ UNCHANGED <<users, nextUserId, todos, nextTodoId, now>>
    /\ UNCHANGED <<tokenVars, hashVars>>

HttpUpdateTodo(p, Reqs) == HttpUpdateTodo_By(GormRepo, p, Reqs)

HttpUpdateTodoSave(p) ==
    /\ pc[p] = "update_save"
    /\ LET a == UpdateTodoSave(todos, local[p]) IN
       /\ todos' = a.tbl
       /\ resp' = [userID |-> local[p].userID, err |-> a.err, at |-> local[p].at,
                   id |-> local[p].id, req |-> local[p].req,
                   http |-> a.http, service |-> TRUE, proc |-> p,
                   op |-> "UpdateTodo", handler |-> TRUE]
    /\ pc' = [pc EXCEPT ![p] = "idle"]
    /\ local' = [local EXCEPT ![p] = NoLocal]
    /\ UNCHANGED <<users, nextUserId, nextTodoId, now>>
    /\ UNCHANGED <<tokenVars, hashVars>>

HttpDeleteTodo(p, Reqs) ==
    /\ pc[p] = "idle"
    /\ \E req \in Reqs :
         LET g == RunGate(req, now)
             a == Served(g, DeleteTodo(g.ctx, req, todos, nextTodoId)) IN
         IF a.done
         THEN /\ resp' = Record(p, "DeleteTodo", req, g, a)
              /\ UNCHANGED <<pc, local>>
         ELSE /\ pc' = [pc EXCEPT ![p] = "delete_exec"]
              /\ local' = [local EXCEPT ![p] = [NoLocal EXCEPT !.req = req, !.at = now,
                                                        !.userID = a.userID,
                                                        !.id = a.id]]
              /\ resp' = NoRecord
    /\ UNCHANGED <<users, nextUserId, todos, nextTodoId, now>>
    /\ UNCHANGED <<tokenVars, hashVars>>

HttpDeleteTodoExec(p) ==
    /\ pc[p] = "delete_exec"
    /\ LET a == DeleteTodoExec(todos, local[p]) IN
       /\ todos' = a.tbl
       /\ resp' = [userID |-> local[p].userID, err |-> a.err, at |-> local[p].at,
                   id |-> local[p].id, req |-> local[p].req,
                   http |-> a.http, service |-> TRUE, proc |-> p,
                   op |-> "DeleteTodo", handler |-> TRUE]
    /\ pc' = [pc EXCEPT ![p] = "idle"]
    /\ local' = [local EXCEPT ![p] = NoLocal]
    /\ UNCHANGED <<users, nextUserId, nextTodoId, now>>
    /\ UNCHANGED <<tokenVars, hashVars>>

\* the wall clock advances
Tick ==
    /\ now < StartTime + MaxTicks * TickMillis
    /\ now' = now + TickMillis
    /\ resp' = NoRecord
    /\ UNCHANGED <<users, nextUserId, todos, nextTodoId, pc, local>>
    /\ UNCHANGED <<tokenVars, hashVars>>

\* GET /health: the database answers the ping or it does not
HttpHealthCheck(p) ==
    /\ pc[p] = "idle"
    /\ \E dbErr \in Database_HealthCheck :
         resp' = [NoRecord EXCEPT !.proc = p, !.op = "HealthCheck", !.at = now,
                                  !.req = Request("public", NoHeader, <<>>, NoBody),
                                  !.handler = TRUE, !.err = dbErr,
                                  !.http = HealthCheck(dbErr, now)]
    /\ UNCHANGED <<users, nextUserId, todos, nextTodoId, now, pc, local>>
    /\ UNCHANGED <<tokenVars, hashVars>>

\* GET /ready
HttpReadinessCheck(p) ==
    /\ pc[p] = "idle"
    /\ \E dbErr \in Database_HealthCheck :
         resp' = [NoRecord EXCEPT !.proc = p, !.op = "ReadinessCheck", !.at = now,
                                  !.req = Request("public", NoHeader, <<>>, NoBody),
                                  !.handler = TRUE, !.err = dbErr,
                                  !.http = ReadinessCheck(dbErr, now)]
    /\ UNCHANGED <<users, nextUserId, todos, nextTodoId, now, pc, local>>
    /\ UNCHANGED <<tokenVars, hashVars>>

(***************************************************************************)
(* Actions of the auth endpoints (public routes: no gate)                   *)
(***************************************************************************)
Salts == {"s1", "s2"}

AuthRecord(p, op, req, at, a) ==
    [userID |-> 0, err |-> a.err, at |-> at, id |-> 0, req |-> req, http |-> a.http,
     service |-> a.service, proc |-> p, op |-> op, handler |-> TRUE]

HttpRegister(p, Reqs) ==
    /\ pc[p] = "idle"
    /\ \E req \in Reqs, salt \in Salts :
         LET a == Register(req, users, salt) IN
         IF a.done
         THEN /\ resp' = AuthRecord(p, "Register", req, now, a)
              /\ UNCHANGED <<pc, local>>
         ELSE /\ pc' = [pc EXCEPT ![p] = "register_create"]
              /\ local' = [local EXCEPT ![p] = [NoLocal EXCEPT !.req = req, !.at = now,
                                                        !.user = a.user]]
              /\ resp' = NoRecord
    /\ UNCHANGED <<users, nextUserId, todos, nextTodoId, now>>
    /\ UNCHANGED <<tokenVars, hashVars>>

HttpRegisterCreate(p) ==
    /\ pc[p] = "register_create"
    /\ nextUserId <= MaxUsers
    /\ LET a == RegisterCreate(users, nextUserId, local[p], now) IN
       /\ users' = a.tbl
       /\ nextUserId' = a.nextId
       /\ resp' = AuthRecord(p, "Register", local[p].req, local[p].at,
                          [err |-> a.err, http |-> a.http, service |-> TRUE])
    /\ pc' = [pc EXCEPT ![p] = "idle"]
    /\ local' = [local EXCEPT ![p] = NoLocal]
    /\ UNCHANGED <<todos, nextTodoId, now>>
    /\ UNCHANGED <<tokenVars, hashVars>>

HttpLogin(p, Reqs) ==
    /\ pc[p] = "idle"
    /\ \E req \in Reqs :
         LET a == Login(req, users, now) IN
         resp' = AuthRecord(p, "Login", req, now, a)
    /\ UNCHANGED <<users, nextUserId, todos, nextTodoId, now, pc, local>>
    /\ UNCHANGED <<tokenVars, hashVars>>

\* authService.Register called without the handler in front of it, as the
\* service's own callers and tests call it: no binding, no validate tags
ServiceRegister(p, Reqs) ==
    /\ pc[p] = "idle"
    /\ \E req \in Reqs, salt \in Salts :
         LET r == AuthService_RegisterLookup(users, req.body, salt) IN
         IF r.err # "nil"
         THEN /\ resp' = [NoRecord EXCEPT !.proc = p, !.op = "Register", !.req = req,
                                          !.at = now, !.err = r.err, !.service = TRUE]
              /\ UNCHANGED <<pc, local>>
         ELSE /\ pc' = [pc EXCEPT ![p] = "register_create"]
              /\ local' = [local EXCEPT ![p] = [NoLocal EXCEPT !.req = req, !.at = now,
                                                        !.user = r.user]]
              /\ resp' = NoRecord
    /\ UNCHANGED <<users, nextUserId, todos, nextTodoId, now>>
    /\ UNCHANGED <<tokenVars, hashVars>>

ServiceRegisterCreate(p) ==
    /\ pc[p] = "register_create"
    /\ nextUserId <= MaxUsers
    /\ LET r == AuthService_RegisterCreate(users, nextUserId, local[p].user, now) IN
       /\ users' = r.tbl
       /\ nextUserId' = r.nextId
       /\ resp' = [NoRecord EXCEPT !.proc = p, !.op = "Register", !.req = local[p].req,
                                   !.at = local[p].at, !.err = r.err, !.service = TRUE]
    /\ pc' = [pc EXCEPT ![p] = "idle"]
    /\ local' = [local EXCEPT ![p] = NoLocal]
    /\ UNCHANGED <<todos, nextTodoId, now>>
    /\ UNCHANGED <<tokenVars, hashVars>>

(***************************************************************************)
(* Spec: the todo endpoints served to authenticated clients, one request    *)
(* after the other, on a store in which users 1 and 2 are registered        *)
(***************************************************************************)
EmptyTable == [i \in {} |-> NoTodo]

RegisteredUsers ==
    [u \in UserIds |-> [email |-> Email(u), id |-> u,
                        created_at |-> StartTime - 500,
                        updated_at |-> StartTime - 500,
                        password |-> [key |-> "password123", salt |-> "s1"]]]

\* no request of the todo endpoints reaches the hasher
Init ==
    /\ users = RegisteredUsers
    /\ nextUserId = 3
    /\ todos = EmptyTable
    /\ nextTodoId = 1
    /\ now = StartTime
    /\ pc = [p \in Procs |-> "idle"]
    /\ local = [p \in Procs |-> NoLocal]
    /\ resp = NoRecord
    /\ tokenManager = ServerTokenManager
    /\ issued = NoIssue
    /\ validated = NoValidation
    /\ bcryptVersion = "truncates"
    /\ hashed = NoHashCall
    /\ verified = NoVerifyCall

Next ==
    \/ HttpCreateTodo("p1", CreateRequests)
    \/ HttpGetTodos("p1", ListRequests)
    \/ HttpGetTodo("p1", GetRequests)
    \/ HttpUpdateTodo("p1", UpdateRequests)
    \/ HttpUpdateTodoSave("p1")
    \/ HttpDeleteTodo("p1", DeleteRequests)
    \/ HttpDeleteTodoExec("p1")
    \/ Tick

Spec == Init /\ [][Next]_vars

(***************************************************************************)
(* SpecAuth: registration and login, two requests at a time, on an empty    *)
(* users table                                                              *)
(***************************************************************************)
AuthBody(email, password) == [NoBody EXCEPT !.email = email, !.password = password]

AuthRequest(body) == Request("public", NoHeader, <<>>, body)

RegisterRequests ==
    {AuthRequest(AuthBody(e, pw)) : e \in {"a@example.com", "b@example.com"},
                                   pw \in {"password123", "hunter2hunter2"}}

LoginRequests ==
    {AuthRequest(AuthBody(e, pw)) : e \in {"a@example.com", "b@example.com"},
                                   pw \in {"password123", "hunter2hunter2", "short", ""}}

InitAuth ==
    /\ users = [i \in {} |-> NoUser]
    /\ nextUserId = 1
    /\ todos = EmptyTable
    /\ nextTodoId = 1
    /\ now = StartTime
    /\ pc = [p \in Procs |-> "idle"]
    /\ local = [p \in Procs |-> NoLocal]
    /\ resp = NoRecord
    /\ tokenManager = ServerTokenManager
    /\ issued = NoIssue
    /\ validated = NoValidation
    /\ bcryptVersion \in BcryptVersions
    /\ hashed = NoHashCall
    /\ verified = NoVerifyCall

NextAuth ==
    \/ \E p \in Procs : HttpRegister(p, RegisterRequests)
    \/ \E p \in Procs : HttpRegisterCreate(p)
    \/ \E p \in Procs : HttpLogin(p, LoginRequests)
    \/ Tick

SpecAuth == InitAuth /\ [][NextAuth]_vars

(***************************************************************************)
(* SpecService: authService.Register called directly, two calls at a time,  *)
(* on an empty users table                                                  *)
(***************************************************************************)
\* passwords of 11, 5, 0 and 129 bytes
ServiceRegisterRequests ==
    {AuthRequest(AuthBody(e, pw)) :
        e \in {"a@example.com", "b@example.com"},
        pw \in {"password123", "short", "", Repeat("a", MaxPasswordLength + 1)}}

NextService ==
    \/ \E p \in Procs : ServiceRegister(p, ServiceRegisterRequests)
    \/ \E p \in Procs : ServiceRegisterCreate(p)
    \/ Tick

SpecService == InitAuth /\ [][NextService]_vars

(***************************************************************************)
(* SpecGate: the todo endpoints served to any client, one request after     *)
(* the other: every kind of Authorization header, bodies that carry a       *)
(* user_id key, path parameters that are no number                          *)
(***************************************************************************)
\* route and header of a request: every header on a gated route, and a
\* handler run without the gate
GateEntries ==
    {<<"gated", h>> : h \in GoodHeaders \cup BadHeaders}
    \cup {<<"bare", h>> :
             h \in {NoHeader, Bearer(CHOOSE t \in ValidTokens : t.claims.user_id = 1)}}

GateRequest(e, id, body) == Request(e[1], e[2], id, body)

GateCreateBody == [NoBody EXCEPT !.title = Present("X"), !.description = Present("Y")]

GateUpdateBody == UpdateBody(Absent(""), Absent(""), Present(TRUE))

GateCreateRequests ==
    {GateRequest(e, <<>>, b) :
        e \in GateEntries,
        b \in {GateCreateBody, [GateCreateBody EXCEPT !.user_id = 2], MalformedBody}}
GateListRequests == {GateRequest(e, <<>>, NoBody) : e \in GateEntries}
GateGetRequests == {GateRequest(e, i, NoBody) : e \in GateEntries, i \in {<<"1">>, <<"x">>}}
GateUpdateRequests ==
    {GateRequest(e, <<"1">>, b) :
        e \in GateEntries, b \in {GateUpdateBody, [GateUpdateBody EXCEPT !.user_id = 2]}}
GateDeleteRequests == {GateRequest(e, <<"0", "1">>, NoBody) : e \in GateEntries}

NextGate ==
    \/ HttpCreateTodo("p1", GateCreateRequests)
    \/ HttpGetTodos("p1", GateListRequests)
    \/ HttpGetTodo("p1", GateGetRequests)
    \/ HttpUpdateTodo("p1", GateUpdateRequests)
    \/ HttpUpdateTodoSave("p1")
    \/ HttpDeleteTodo("p1", GateDeleteRequests)
    \/ HttpDeleteTodoExec("p1")
    \/ Tick

SpecGate == Init /\ [][NextGate]_vars

(***************************************************************************)
(* SpecRace: the todo endpoints served to the two registered users, two     *)
(* requests at a time: the store calls of the two interleave in any order   *)
(***************************************************************************)
RaceHeaders == {Bearer(t) : t \in {v \in ValidTokens : v.claims.user_id \in UserIds}}

RaceCreateRequests == {Request("gated", h, <<>>, GateCreateBody) : h \in RaceHeaders}
RaceListRequests == {Request("gated", h, <<>>, NoBody) : h \in RaceHeaders}
RaceGetRequests == {Request("gated", h, <<"1">>, NoBody) : h \in RaceHeaders}
RaceUpdateRequests ==
    {Request("gated", h, <<"1">>, b) : h \in RaceHeaders, b \in UpdateBodies}
RaceDeleteRequests == RaceGetRequests

NextRace ==
    \/ \E p \in Procs : HttpCreateTodo(p, RaceCreateRequests)
    \/ \E p \in Procs : HttpGetTodos(p, RaceListRequests)
    \/ \E p \in Procs : HttpGetTodo(p, RaceGetRequests)
    \/ \E p \in Procs : HttpUpdateTodo(p, RaceUpdateRequests)
    \/ \E p \in Procs : HttpUpdateTodoSave(p)
    \/ \E p \in Procs : HttpDeleteTodo(p, RaceDeleteRequests)
    \/ \E p \in Procs : HttpDeleteTodoExec(p)

SpecRace == Init /\ [][NextRace]_vars

(***************************************************************************)
(* SpecMock: the service as its tests build it, on a mocked repository      *)
(* whose GetByID returns the todo the test gave it, the owner not looked    *)
(* at, behind the server's handlers                                         *)
(***************************************************************************)
MockGetRequests == {Request("gated", h, i, NoBody) : h \in RaceHeaders, i \in IdParams}

MockUpdateRequests ==
    {Request("gated", h, i, b) : h \in RaceHeaders, i \in IdParams, b \in UpdateBodies}

NextMock ==
    \/ HttpCreateTodo("p1", RaceCreateRequests)
    \/ HttpGetTodos("p1", RaceListRequests)
    \/ HttpGetTodo_By(MockRepo, "p1", MockGetRequests)
    \/ HttpUpdateTodo_By(MockRepo, "p1", MockUpdateRequests)
    \/ HttpUpdateTodoSave("p1")

SpecMock == Init /\ [][NextMock]_vars

(***************************************************************************)
(* SpecApi: every endpoint, one request after the other, on an empty users  *)
(* table: clients register, log in and work on todos with the tokens of the *)
(* first two users                                                          *)
(***************************************************************************)
\* passwords of 11, 5, 0 and 129 bytes
ApiRegisterRequests ==
    {AuthRequest(AuthBody(e, pw)) :
        e \in {"a@example.com", "b@example.com"},
        pw \in {"password123", "short", "", Repeat("a", MaxPasswordLength + 1)}}

ApiLoginRequests ==
    {AuthRequest(AuthBody("a@example.com", pw)) : pw \in {"password123", "hunter2hunter2"}}

NextApi ==
    \/ HttpRegister("p1", ApiRegisterRequests)
    \/ HttpRegisterCreate("p1")
    \/ HttpLogin("p1", ApiLoginRequests)
    \/ HttpCreateTodo("p1", RaceCreateRequests)
    \/ HttpGetTodos("p1", RaceListRequests)
    \/ HttpGetTodo("p1", RaceGetRequests)
    \/ HttpUpdateTodo("p1", RaceUpdateRequests)
    \/ HttpUpdateTodoSave("p1")
    \/ HttpDeleteTodo("p1", RaceDeleteRequests)
    \/ HttpDeleteTodoExec("p1")
    \/ HttpHealthCheck("p1")
    \/ HttpReadinessCheck("p1")

SpecApi == InitAuth /\ [][NextApi]_vars

(***************************************************************************)
(* SpecToken: one TokenManager, tokens generated on it and validated by it  *)
(* while the clock advances by fractions of a second and by hours           *)
(***************************************************************************)
\* the largest expiration, in hours, a manager of SpecToken is made with
MaxHours == 2

\* the user ids tokens are generated for
TokenUserIds == 1..MaxUsers

TokenEmails == {"a@example.com", "b@example.com"}

\* the steps of the clock: a third of a tick, one hour, and one hour less a
\* third of a tick
ClockSteps ==
    {TickMillis \div 3, ExpirationMillis(1), ExpirationMillis(1) - TickMillis \div 3}

\* a manager with the expiration of the model's one and another secret
OtherManager == [tokenManager EXCEPT !.key = "other-secret"]

\* a token is generated on manager tm
TokenGenerate(tm, userID, email) ==
    /\ issued' = [email |-> email,
                  userID |-> userID,
                  token |-> GenerateToken(tm, userID, email, now), at |-> now]
    /\ validated' = NoValidation
    /\ UNCHANGED <<users, nextUserId, todos, nextTodoId, now, pc, local, resp, tokenManager>>
    /\ UNCHANGED hashVars

\* one ValidateToken call per token and instant
TokenValidate ==
    /\ issued # NoIssue
    /\ ~validated.done \/ validated.at # now
    /\ LET v == ValidateToken(tokenManager, issued.token, now) IN
       validated' = [claims |-> v.claims, err |-> v.err, at |-> now, done |-> TRUE]
    /\ UNCHANGED <<users, nextUserId, todos, nextTodoId, now, pc, local, resp,
                   tokenManager, issued>>
    /\ UNCHANGED hashVars

TokenTick(d) ==
    /\ (now + d - StartTime) % ExpirationMillis(1) <= MaxTicks * TickMillis
    /\ now + d <= StartTime + ExpirationMillis(MaxHours) + MaxTicks * TickMillis
    /\ now' = now + d
    /\ UNCHANGED <<users, nextUserId, todos, nextTodoId, pc, local, resp, tokenVars>>
    /\ UNCHANGED hashVars

InitToken ==
    /\ users = RegisteredUsers
    /\ nextUserId = 3
    /\ todos = EmptyTable
    /\ nextTodoId = 1
    /\ now = StartTime
    /\ pc = [p \in Procs |-> "idle"]
    /\ local = [p \in Procs |-> NoLocal]
    /\ resp = NoRecord
    /\ tokenManager \in {NewTokenManager(JWTSecret, h) : h \in 0..MaxHours}
    /\ issued = NoIssue
    /\ validated = NoValidation
    /\ bcryptVersion = "truncates"
    /\ hashed = NoHashCall
    /\ verified = NoVerifyCall

NextToken ==
    \/ \E tm \in {tokenManager, OtherManager}, u \in TokenUserIds, e \in TokenEmails :
          TokenGenerate(tm, u, e)
    \/ TokenValidate
    \/ \E d \in ClockSteps : TokenTick(d)

SpecToken == InitToken /\ [][NextToken]_vars

(***************************************************************************)
(* SpecAlg: SpecToken with a client that rewrites the header and the        *)
(* signature of the token it was given before it presents it                *)
(***************************************************************************)
\* the alg values of the headers presented: the HMAC family, two asymmetric
\* methods, none, and a name no signing method is registered under
SigningMethods == HMACFamily \cup {"RS256", "ES256", "none", "XX999"}

\* the keys the presented signature bytes are an HMAC under: the manager's
\* secret, another secret, or no key at all
SignatureKeys == {JWTSecret, "other-secret", ""}

\* the claims of the issued token under a header naming alg, with signature
\* bytes that are an HMAC under key
TokenCraft(alg, key) ==
    /\ issued # NoIssue
    /\ issued.token.alg # alg \/ issued.token.key # key
    /\ issued' = [issued EXCEPT !.token.alg = alg, !.token.key = key]
    /\ validated' = NoValidation
    /\ UNCHANGED <<users, nextUserId, todos, nextTodoId, now, pc, local, resp, tokenManager>>
    /\ UNCHANGED hashVars

NextAlg ==
    \/ \E u \in TokenUserIds : TokenGenerate(tokenManager, u, Email(u))
    \/ \E alg \in SigningMethods, key \in SignatureKeys : TokenCraft(alg, key)
    \/ TokenValidate
    \/ \E d \in ClockSteps : TokenTick(d)

SpecAlg == InitToken /\ [][NextAlg]_vars

(***************************************************************************)
(* SpecHash: one Hasher, passwords hashed by it and verified against the    *)
(* hash it made or against a stored string that is no hash                  *)
(***************************************************************************)
\* lengths 0, 5, 7, 8, 11 and 14, 72, and 73, 128 and 129 by head and tail
HashPasswords ==
    {"", "short", "1234567", "12345678", "password123", "hunter2hunter2"}
    \cup Heads72 \cup {h \o t : h \in Heads72, t \in Tails}

HasherHash(password, salt) ==
    /\ LET r == HashPassword(password, salt) IN
       hashed' = [err |-> r.err, done |-> TRUE, password |-> password, salt |-> salt,
                  hash |-> r.hash]
    /\ verified' = NoVerifyCall
    /\ UNCHANGED <<users, nextUserId, todos, nextTodoId, now, pc, local, resp, tokenVars>>
    /\ UNCHANGED bcryptVersion

HasherVerify(password, stored) ==
    /\ hashed.done
    /\ verified' = [err |-> VerifyPassword(stored, password), done |-> TRUE,
                    password |-> password, hash |-> stored]
    /\ UNCHANGED <<users, nextUserId, todos, nextTodoId, now, pc, local, resp, tokenVars>>
    /\ UNCHANGED <<bcryptVersion, hashed>>

InitHash ==
    /\ users = RegisteredUsers
    /\ nextUserId = 3
    /\ todos = EmptyTable
    /\ nextTodoId = 1
    /\ now = StartTime
    /\ pc = [p \in Procs |-> "idle"]
    /\ local = [p \in Procs |-> NoLocal]
    /\ resp = NoRecord
    /\ tokenManager = ServerTokenManager
    /\ issued = NoIssue
    /\ validated = NoValidation
    /\ bcryptVersion \in BcryptVersions
    /\ hashed = NoHashCall
    /\ verified = NoVerifyCall

NextHash ==
    \/ \E pw \in HashPasswords, salt \in Salts : HasherHash(pw, salt)
    \/ \E pw \in HashPasswords, stored \in {hashed.hash, NoHash} : HasherVerify(pw, stored)

SpecHash == InitHash /\ [][NextHash]_vars

(***************************************************************************)
(* Properties                                                               *)
(***************************************************************************)
\* the ids of the stored todos of user u
OwnedBy(u) == {i \in DOMAIN todos : todos[i].user_id = u}

\* C1: a GetTodo by a user who does not own the stored todo is answered as a
\* GetTodo of an id that does not exist: the service error is TodoNotFound,
\* the response is the 404 not_found one and carries no todo.
C1_ForeignTodoLooksMissing ==
    (/\ resp.op = "GetTodo" /\ resp.service
     /\ resp.id \in DOMAIN todos /\ todos[resp.id].user_id # resp.userID)
    => /\ resp.err = ErrTodoNotFound
       /\ resp.err = TodoService_GetByID(todos, nextTodoId, resp.userID).err
       /\ resp.http = TodoNotFoundResponse
       /\ resp.http = GetTodoError(TodoService_GetByID(todos, nextTodoId, resp.userID).err)
       /\ resp.http.todos = <<>>

C1_Witness ==
    /\ resp.op = "GetTodo" /\ resp.service /\ resp.userID \in DOMAIN users
    /\ resp.id \in DOMAIN todos /\ todos[resp.id].user_id # resp.userID
    /\ resp.http.status = StatusNotFound

\* C2: a step changes or removes a stored todo only when it answers an
\* UpdateTodo or DeleteTodo called with the todo's id and its owner's userID;
\* an Update or Delete by another user is answered 404 not_found
\* (TodoNotFound) and leaves the table as it was.
C2_OnlyOwnerChangesTodo ==
    [][/\ \A i \in DOMAIN todos :
            (i \notin DOMAIN todos' \/ todos'[i] # todos[i])
            => /\ resp'.op \in {"UpdateTodo", "DeleteTodo"}
               /\ resp'.service
               /\ resp'.id = i
               /\ resp'.userID = todos[i].user_id
       /\ (/\ resp'.op \in {"UpdateTodo", "DeleteTodo"} /\ resp'.service
           /\ resp'.id \in DOMAIN todos /\ todos[resp'.id].user_id # resp'.userID)
          => /\ resp'.err = ErrTodoNotFound
             /\ resp'.http = TodoNotFoundResponse
             /\ todos' = todos]_vars

C2_Witness ==
    /\ resp.op \in {"UpdateTodo", "DeleteTodo"} /\ resp.service
    /\ resp.id \in DOMAIN todos /\ todos[resp.id].user_id # resp.userID
    /\ resp.http.status = StatusNotFound

\* C3: the list GetTodos returns to an existing user holds exactly the
\* stored todos that user owns, each once.
C3_ListIsExactlyOwn ==
    (resp.op = "GetTodos" /\ resp.service /\ resp.userID \in DOMAIN users)
    => /\ resp.http.status = StatusOK
       /\ {resp.http.todos[k] : k \in DOMAIN resp.http.todos}
            = {todos[i] : i \in OwnedBy(resp.userID)}
       /\ Len(resp.http.todos) = Cardinality(OwnedBy(resp.userID))

C3_Witness ==
    /\ resp.op = "GetTodos" /\ resp.service
    /\ Len(resp.http.todos) >= 1
    /\ \E i \in DOMAIN todos : todos[i].user_id # resp.userID

\* the four refusals C4 names, for header h at time t
HeaderAbsent(h) == h = NoHeader
HeaderNotBearer(h) == ~HeaderAbsent(h) /\ h.prefix # BearerPrefix
TokenMaterialEmpty(h) == h.prefix = BearerPrefix /\ h.rest = EmptyToken
TokenFailsValidation(h, t) ==
    /\ h.prefix = BearerPrefix /\ h.rest # EmptyToken
    /\ ValidateToken(ServerTokenManager, h.rest, t).err \in {"ErrExpiredToken", "ErrInvalidToken"}

\* C4: a request on a gated route whose Authorization header is absent, has
\* no "Bearer " prefix, has nothing after the prefix, or carries a token that
\* fails validation is answered 401 and its handler is not invoked; a handler
\* behind the gate is invoked only for a token that validated on arrival.
C4_GateShortCircuits ==
    (resp.op # "" /\ resp.req.route = "gated")
    => /\ (\/ HeaderAbsent(resp.req.header)
           \/ HeaderNotBearer(resp.req.header)
           \/ TokenMaterialEmpty(resp.req.header)
           \/ TokenFailsValidation(resp.req.header, resp.at))
          => /\ resp.http.status = StatusUnauthorized
             /\ ~resp.handler
             /\ ~resp.service
       /\ resp.handler
          => /\ resp.req.header.prefix = BearerPrefix
             /\ ValidateToken(ServerTokenManager, resp.req.header.rest, resp.at).err = "nil"

\* a token that validated when the run started is refused after it expired
C4_Witness ==
    /\ resp.op # "" /\ resp.req.route = "gated"
    /\ resp.req.header = Bearer(AgingToken)
    /\ resp.at > StartTime
    /\ resp.http = Unauthorized("Token has expired")
    /\ ~resp.handler

\* C5: the userID a todo service call receives is the user_id claim of the
\* token the gate validated for the request, whatever the body and the path
\* carry; a handler run on a context without identity answers 401
\* "User not authenticated" and calls no service.
C5_UserIDComesFromToken ==
    /\ resp.service
       => /\ resp.req.route = "gated"
          /\ resp.req.header.prefix = BearerPrefix
          /\ ValidateToken(ServerTokenManager, resp.req.header.rest, resp.at).err = "nil"
          /\ resp.userID = resp.req.header.rest.claims.user_id
    /\ (resp.op # "" /\ resp.req.route = "bare")
       => /\ resp.http = NotAuthenticated
          /\ ~resp.service

\* a service call for a body whose user_id key names another user
C5_Witness ==
    /\ resp.service
    /\ resp.req.body.user_id # 0
    /\ resp.req.body.user_id # resp.userID
    /\ resp.http.status \in {StatusOK, StatusCreated}

\* the ids of the stored users with this email
WithEmail(tbl, email) == {i \in DOMAIN tbl : tbl[i].email = email}

\* process p is answered by this step, from the position it had before it
Answers(p, op, from) == pc[p] = from /\ resp'.proc = p /\ resp'.op = op

EmailExistsResponse ==
    ErrorResponse(StatusConflict, "email_exists", "An account with this email already exists")

\* C6: a Register whose email is not stored when it reaches the store's
\* create succeeds: 201 with a token and the user, and the table gains one
\* row with the hash this call made. A Register that starts when the email
\* is stored fails with EmailAlreadyExists, 409 email_exists, and leaves the
\* table alone: one user with that email, its hash the first call's.
C6_SecondRegisterConflicts ==
    [][\A p \in Procs :
         /\ (Answers(p, "Register", "register_create")
              /\ WithEmail(users, local[p].user.email) = {})
            => /\ resp'.http.status = StatusCreated
               /\ resp'.http.kind = "auth"
               /\ resp'.http.auth.user.email = local[p].user.email
               /\ ValidateToken(ServerTokenManager, resp'.http.auth.token, now).err = "nil"
               /\ WithEmail(users', local[p].user.email) = {resp'.http.auth.user.id}
               /\ users'[resp'.http.auth.user.id].password = local[p].user.password
               /\ \A i \in DOMAIN users : i \in DOMAIN users' /\ users'[i] = users[i]
         /\ (Answers(p, "Register", "idle") /\ resp'.service
              /\ WithEmail(users, resp'.req.body.email) # {})
            => /\ resp'.err = ErrEmailAlreadyExists
               /\ resp'.http = EmailExistsResponse
               /\ users' = users
               /\ Cardinality(WithEmail(users', resp'.req.body.email)) = 1]_vars

\* the second call came with another password: the stored hash is the first's
C6_Witness ==
    /\ resp.op = "Register" /\ resp.http = EmailExistsResponse
    /\ \E i \in WithEmail(users, resp.req.body.email) :
          /\ Cardinality(WithEmail(users, resp.req.body.email)) = 1
          /\ Bcrypt_CompareHashAndPassword(users[i].password, resp.req.body.password) # "nil"

UniqueEmails ==
    \A i, j \in DOMAIN users : users[i].email = users[j].email => i = j

\* C7: however the lookups and creates of concurrent Registers interleave,
\* the table never holds two users with one email, and a Register answers
\* 201 only in the step that stores the first user with its email, so at
\* most one Register per email succeeds.
C7_AtMostOneRegisterSucceeds ==
    /\ []UniqueEmails
    /\ [][/\ \A i \in DOMAIN users : i \in DOMAIN users' /\ users'[i] = users[i]
          /\ (resp'.op = "Register" /\ resp'.http.status = StatusCreated)
             => /\ WithEmail(users, resp'.req.body.email) = {}
                /\ Cardinality(WithEmail(users', resp'.req.body.email)) = 1]_vars

\* two Registers looked the email up before either created: the second
\* create is refused by the store
C7_Witness ==
    /\ resp.op = "Register"
    /\ resp.err = Wrap("failed to create user", ErrDuplicateKey)
    /\ resp.http.status # StatusCreated
    /\ Cardinality(WithEmail(users, resp.req.body.email)) = 1

\* the login request is for a stored user and its password is not that user's
WrongPasswordLogin ==
    /\ resp.op = "Login"
    /\ ~resp.req.body.malformed
    /\ \E i \in WithEmail(users, resp.req.body.email) :
          Bcrypt_CompareHashAndPassword(users[i].password, resp.req.body.password) # "nil"

\* C8: a login with a registered email and a non-empty password that does
\* not match the stored hash is answered 401 invalid_credentials.
C8_WrongPasswordIsUnauthorized ==
    (WrongPasswordLogin /\ resp.req.body.password # "")
    => /\ resp.http.status = StatusUnauthorized
       /\ resp.http.error = "invalid_credentials"

\* the handler's switch has no case for the service's error text
C8_Witness ==
    /\ WrongPasswordLogin /\ resp.req.body.password # ""
    /\ resp.err = ErrInvalidCredentials
    /\ resp.http = ErrorResponse(StatusInternalServerError, "login_failed",
                                 "Failed to authenticate user")

\* an email no Register of the model uses
UnregisteredEmail == "c@example.com"

\* C9: a login with a registered email and a wrong password gets what the
\* same login with an unregistered email gets: the same service error,
\* InvalidCredentials when the service is reached, the same status and body.
C9_LoginHidesEmailExistence ==
    WrongPasswordLogin
    => LET other == Login(AuthRequest(AuthBody(UnregisteredEmail, resp.req.body.password)),
                          users, resp.at) IN
       /\ WithEmail(users, UnregisteredEmail) = {}
       /\ resp.http = other.http
       /\ resp.err = other.err
       /\ resp.service = other.service
       /\ resp.service => resp.err = ErrInvalidCredentials

C9_Witness ==
    /\ WrongPasswordLogin
    /\ resp.service
    /\ resp.err = ErrInvalidCredentials
    /\ Len(resp.req.body.password) >= MinPasswordLength

\* the token under validation was generated on the validating manager
OwnToken == issued.token.key = tokenManager.key

\* C10: with a strictly positive expiration, a token validated by its manager
\* within the second it was generated in is accepted, and its claims carry
\* the user id and email it was generated for, not-before = issued-at and
\* expires-at = issued-at + expiration, which is later than issued-at.
C10_TokenRoundTrip ==
    (/\ validated.done /\ OwnToken
     /\ validated.at < issued.at + MillisPerSecond
     /\ tokenManager.expiration > 0)
    => /\ validated.err = "nil"
       /\ validated.claims.user_id = issued.userID
       /\ validated.claims.email = issued.email
       /\ validated.claims.iat = NewNumericDate(issued.at)
       /\ validated.claims.nbf = validated.claims.iat
       /\ NumericDateTime(validated.claims.exp)
            = NumericDateTime(validated.claims.iat) + tokenManager.expiration
       /\ validated.claims.exp > validated.claims.iat

\* generated at an instant that is no whole second, validated a moment later
C10_Witness ==
    /\ validated.done /\ OwnToken /\ validated.err = "nil"
    /\ tokenManager.expiration > 0
    /\ issued.at % MillisPerSecond # 0
    /\ validated.at > issued.at
    /\ validated.at < issued.at + MillisPerSecond

\* the issued-at a token carries: the time of issue in whole seconds
IssuedAtTime == NumericDateTime(NewNumericDate(issued.at))

\* a rejection as Expired is kept by every later validation of the token
ExpiredStaysExpired ==
    (/\ validated.done /\ validated.err = "ErrExpiredToken"
     /\ issued' = issued /\ validated'.done)
    => validated'.err = "ErrExpiredToken"

\* C11 as stated: a token generated at t0 on a manager with window W and
\* validated on it at t is accepted when t0 <= t < t0 + W and rejected as
\* Expired when t >= t0 + W, the time of issue t0 taken to the millisecond.
C11_WindowFromIssueInstant ==
    (validated.done /\ OwnToken)
    => /\ (issued.at <= validated.at /\ validated.at < issued.at + tokenManager.expiration)
          => validated.err = "nil"
       /\ validated.at >= issued.at + tokenManager.expiration
          => validated.err = "ErrExpiredToken"

\* C11, amended: with s0 the time of issue in whole seconds (the issued-at
\* the token carries), a validation at t >= t0 is accepted when t < s0 + W
\* and rejected as Expired, not Invalid, when t >= s0 + W, the boundary
\* t = s0 + W and a window of length zero included; after a rejection as
\* Expired no later validation of the token accepts it.
C11_WindowFromIssuedAt ==
    /\ [](validated.done /\ OwnToken
           => /\ validated.at >= issued.at
              /\ validated.at < IssuedAtTime + tokenManager.expiration
                 => validated.err = "nil"
              /\ validated.at >= IssuedAtTime + tokenManager.expiration
                 => validated.err = "ErrExpiredToken")
    /\ [][ExpiredStaysExpired]_vars

\* generated within a second, rejected as Expired before a whole window
\* has passed since the instant of issue
C11_Witness ==
    /\ validated.done /\ OwnToken
    /\ tokenManager.expiration > 0
    /\ issued.at % MillisPerSecond # 0
    /\ validated.at >= IssuedAtTime + tokenManager.expiration
    /\ validated.at < issued.at + tokenManager.expiration
    /\ validated.err = "ErrExpiredToken"

ValidLength(password) ==
    Len(password) >= MinPasswordLength /\ Len(password) <= MaxPasswordLength

\* C12: HashPassword of a password shorter than 8 or longer than 128 returns
\* ErrInvalidPassword and the empty hash, VerifyPassword of such a password
\* returns ErrInvalidPassword whatever the stored hash is; for a length from
\* 8 to 128, both included, neither returns ErrInvalidPassword.
C12_LengthBounds ==
    /\ hashed.done
       => IF ValidLength(hashed.password) THEN hashed.err # ErrInvalidPassword
          ELSE hashed.err = ErrInvalidPassword /\ hashed.hash = NoHash
    /\ verified.done
       => IF ValidLength(verified.password) THEN verified.err # ErrInvalidPassword
          ELSE verified.err = ErrInvalidPassword

\* a password of 129 bytes verified against a hash the hasher made
C12_Witness ==
    /\ hashed.done /\ hashed.err = "nil" /\ Len(hashed.password) = MinPasswordLength
    /\ verified.done /\ verified.hash = hashed.hash
    /\ Len(verified.password) = MaxPasswordLength + 1
    /\ verified.err = ErrInvalidPassword

\* C13: HashPassword of a password of 8 to 128 bytes succeeds; VerifyPassword
\* of its hash returns no error for the same password and
\* ErrVerificationFailed for every other password of 8 to 128 bytes.
C13_HashThenVerify ==
    (hashed.done /\ ValidLength(hashed.password))
    => /\ hashed.err = "nil"
       /\ (verified.done /\ verified.hash = hashed.hash /\ ValidLength(verified.password))
          => IF verified.password = hashed.password THEN verified.err = "nil"
             ELSE verified.err = ErrVerificationFailed

\* two passwords of valid length that agree on their first 72 bytes: the
\* hash of one verifies the other
C13_Witness ==
    /\ hashed.done /\ ValidLength(hashed.password) /\ hashed.err = "nil"
    /\ verified.done /\ verified.hash = hashed.hash
    /\ ValidLength(verified.password)
    /\ verified.password # hashed.password
    /\ verified.err = "nil"

\* the todo as the request of the last answered call gives it
Requested(field) == resp'.req.body[field]

\* C14: a Create for a user that is stored adds one row to the table, under
\* the next id: its owner is the caller, its title and description are the
\* request's and completed is false whatever the body carries; the rows that
\* were stored stay as they were and the row is what the call returns. A
\* Create for a user id without a stored user returns UserNotFound and
\* leaves the table as it was.
C14_CreateStoresOneTodo ==
    [][(resp'.op = "CreateTodo" /\ resp'.service)
       => IF resp'.userID \in DOMAIN users
          THEN /\ resp'.err = "nil"
               /\ nextTodoId \notin DOMAIN todos
               /\ DOMAIN todos' = DOMAIN todos \cup {nextTodoId}
               /\ \A i \in DOMAIN todos : todos'[i] = todos[i]
               /\ todos'[nextTodoId].user_id = resp'.userID
               /\ todos'[nextTodoId].title = Requested("title").value
               /\ todos'[nextTodoId].description = Requested("description").value
               /\ todos'[nextTodoId].completed = FALSE
               /\ resp'.http = TodoResponse(StatusCreated, todos'[nextTodoId])
          ELSE /\ resp'.err = ErrUserNotFound
               /\ todos' = todos]_vars

\* a Create whose body says "completed": true
C14_Witness ==
    /\ resp.op = "CreateTodo" /\ resp.service /\ resp.err = "nil"
    /\ resp.req.body.completed = Present(TRUE)
    /\ resp.http.status = StatusCreated
    /\ ~resp.http.todos[1].completed
    /\ resp.http.todos[1].id \in DOMAIN todos

\* the value field has after the Update the last step answered
Merged(field) ==
    IF Requested(field).present THEN Requested(field).value ELSE todos[resp'.id][field]

\* C15: an Update by the owner, with no other request between its fetch and
\* its write, leaves in each of title, description and completed the value of
\* the request where the request has the field and the value the todo had
\* where it has not; nothing else of the todo changes, and the todo returned
\* is the stored one.
C15_UpdateMergesFields ==
    [][(resp'.op = "UpdateTodo" /\ resp'.service /\ resp'.err = "nil")
       => /\ resp'.id \in DOMAIN todos /\ resp'.id \in DOMAIN todos'
          /\ todos[resp'.id].user_id = resp'.userID
          /\ todos'[resp'.id] = [todos[resp'.id] EXCEPT !.title = Merged("title"),
                                                       !.description = Merged("description"),
                                                       !.completed = Merged("completed")]
          /\ resp'.http = TodoResponse(StatusOK, todos'[resp'.id])]_vars

\* {"title":"Z"} sent for a completed todo: title changed, the rest kept
C15_Witness ==
    /\ resp.op = "UpdateTodo" /\ resp.service /\ resp.err = "nil"
    /\ resp.req.body.title = Present("Z")
    /\ ~resp.req.body.description.present /\ ~resp.req.body.completed.present
    /\ todos[resp.id].title = "Z"
    /\ todos[resp.id].description = "Y"
    /\ todos[resp.id].completed

Deleted(i) == i \in 1..(nextTodoId - 1) /\ i \notin DOMAIN todos

\* C16: once a Delete has removed a todo, the todo stays out of the table
\* whatever the other requests in flight do, an Update that fetched it before
\* the Delete and writes after it included; every GetTodo, UpdateTodo and
\* DeleteTodo that arrives for its id is answered TodoNotFound, and no list
\* contains it.
C16_DeletedIsTerminal ==
    [][\A i \in 1..nextTodoId :
         Deleted(i)
         => /\ i \notin DOMAIN todos'
            /\ (/\ resp'.op \in {"GetTodo", "UpdateTodo", "DeleteTodo"} /\ resp'.service
                /\ resp'.id = i /\ pc[resp'.proc] = "idle")
               => resp'.err = ErrTodoNotFound
            /\ resp'.http.kind = "list"
               => \A k \in DOMAIN resp'.http.todos : resp'.http.todos[k].id # i]_vars

\* the expires-at of the token under validation has passed
ExpiresAtPassed == validated.at >= NumericDateTime(issued.token.claims.exp)

\* C20: ValidateToken returns Expired only for a token signed with the
\* manager's own secret whose expires-at has passed; a token signed with
\* another secret is Invalid before and after its expires-at; a token with
\* the manager's signature and a passed expires-at is Expired, not Invalid.
C20_ExpiredNeedsValidSignature ==
    validated.done
    => /\ validated.err = "ErrExpiredToken" => OwnToken /\ ExpiresAtPassed
       /\ ~OwnToken => validated.err = "ErrInvalidToken"
       /\ (OwnToken /\ ExpiresAtPassed) => validated.err = "ErrExpiredToken"

\* a token signed with another secret, validated after its expires-at
C20_Witness ==
    /\ validated.done /\ ~OwnToken
    /\ tokenManager.expiration > 0
    /\ ExpiresAtPassed
    /\ validated.err = "ErrInvalidToken"

\* the keys of the JSON object a UserInfo is written as
UserViewFields == {"id", "email", "created_at", "updated_at"}

\* the strings of a response outside its todos
ResponseStrings(http) ==
    {http.message, http.error, http.auth.user.email, http.auth.token.claims.email}

C19_BadPasswordIsBadRequest ==
    [][(/\ Answers("p1", "Register", "idle")
        /\ ~resp'.req.body.malformed
        /\ resp'.req.body.email \in WellFormedEmails
        /\ WithEmail(users, resp'.req.body.email) = {}
        /\ ~ValidLength(resp'.req.body.password))
       => /\ resp'.http.status = StatusBadRequest
          /\ resp'.http.error = "validation_failed"
          /\ users' = users]_vars

\* the password of 129 bytes passes the handler's validation and is refused
\* by the service
C19_Witness ==
    /\ resp.op = "Register"
    /\ Len(resp.req.body.password) > MaxPasswordLength
    /\ WithEmail(users, resp.req.body.email) = {}
    /\ resp.err = Wrap("password validation failed", ErrInvalidPassword)
    /\ resp.http.status = StatusInternalServerError

\* the token under validation is a JWT whose header names a signing method
\* outside the HMAC family
MethodNotHMAC == issued.token.form = "jwt" /\ issued.token.alg \notin HMACFamily

\* C21: ValidateToken answers Invalid, without claims, for every token whose
\* header names a signing method outside the HMAC family, whatever key its
\* signature bytes are an HMAC under and whether or not its expires-at has
\* passed; the gate aborts a request carrying it with 401 "Invalid token".
C21_MethodOutsideHMACIsInvalid ==
    (validated.done /\ MethodNotHMAC)
    => /\ validated.err = "ErrInvalidToken"
       /\ validated.claims = NoClaims
       /\ LET g == AuthMiddleware(Bearer(issued.token), validated.at) IN
          /\ g.aborted
          /\ g.ctx = NoIdentity
          /\ g.response = Unauthorized("Invalid token")

\* a token that names the method none, carries the claims the manager
\* issued and a signature made with the manager's secret, validated before
\* its expires-at
C21_Witness ==
    /\ validated.done /\ MethodNotHMAC
    /\ issued.token.alg = "none"
    /\ OwnToken
    /\ ~ExpiresAtPassed
    /\ validated.err = "ErrInvalidToken"

\* process p runs the scoped delete of a Delete whose existence check
\* passed, and the store holds no row of that id and owner any more
LosesDelete(p) ==
    /\ pc[p] = "delete_exec" /\ pc'[p] = "idle"
    /\ TodoRepo_GetByID(todos, local[p].id, local[p].userID).err # "nil"

\* C22: a Delete whose existence check passed and whose scoped delete then
\* affects no row, a concurrent Delete of the todo having run in between,
\* returns TodoNotFound and is answered 404 not_found.
C22_LostDeleteIsNotFound ==
    [][\A p \in Procs :
         LosesDelete(p)
         => /\ resp'.proc = p /\ resp'.op = "DeleteTodo"
            /\ resp'.err = ErrTodoNotFound
            /\ resp'.http = TodoNotFoundResponse]_vars

\* the losing Delete answered 500 with the store's error wrapped
C22_Witness ==
    /\ resp.op = "DeleteTodo"
    /\ resp.err = Wrap("failed to delete todo", ErrRecordNotFound)
    /\ resp.http.status = StatusInternalServerError
    /\ resp.id \notin DOMAIN todos

\* process p runs the store write of an Update
Saves(p) == pc[p] = "update_save" /\ pc'[p] = "idle"

\* C23: the store write of an Update succeeds whatever the other request in
\* flight has done since this Update read the todo: it is answered 200 with
\* the record it merged, that record (the request's value in every field
\* the request has) is the stored todo afterwards, and no other row and no
\* other request is touched; an Update is answered with an error at its read
\* only when the store holds no todo of that id and owner.
C23_LastWriterWins ==
    [][/\ \A p \in Procs :
            Saves(p)
            => /\ resp'.proc = p /\ resp'.op = "UpdateTodo"
               /\ resp'.err = "nil"
               /\ resp'.http = TodoResponse(StatusOK, local[p].todo)
               /\ local[p].id \in DOMAIN todos'
               /\ todos'[local[p].id] = local[p].todo
               /\ \A f \in UpdateFields :
                     local[p].req.body[f].present
                     => todos'[local[p].id][f] = local[p].req.body[f].value
               /\ \A i \in DOMAIN todos \ {local[p].id} :
                     i \in DOMAIN todos' /\ todos'[i] = todos[i]
               /\ \A q \in Procs \ {p} : pc'[q] = pc[q] /\ local'[q] = local[q]
       /\ (resp'.op = "UpdateTodo" /\ resp'.service /\ resp'.err # "nil")
          => /\ resp'.err = ErrTodoNotFound
             /\ TodoRepo_GetByID(todos, resp'.id, resp'.userID).err # "nil"]_vars

\* an Update has just written while another Update of the same todo, with
\* another body, stands between its read and its write and holds a title
\* the store no longer has
C23_Witness ==
    /\ resp.op = "UpdateTodo" /\ resp.err = "nil" /\ resp.http.status = StatusOK
    /\ \E q \in Procs \ {resp.proc} :
          /\ pc[q] = "update_save"
          /\ local[q].id = resp.id
          /\ local[q].userID = resp.userID
          /\ local[q].req.body # resp.req.body
          /\ local[q].todo.title # todos[resp.id].title

\* C24 as stated: the store write of an Update leaves every field its
\* request lacks as the store has it at the write, a value another Update
\* committed since this Update's read included.
C24_AbsentFieldKeepsStoredValue ==
    [][\A p \in Procs :
         (Saves(p) /\ local[p].id \in DOMAIN todos)
         => \A f \in UpdateFields :
               ~local[p].req.body[f].present
               => todos'[local[p].id][f] = todos[local[p].id][f]]_vars

\* C24, amended: the store write of an Update puts into every field its
\* request lacks the value this Update read (the record an Update holds
\* between its read and its write carries that value in such a field): the
\* field is unchanged when the store still has the value read, and a value
\* another Update committed in between is replaced by the value read.
C24_AbsentFieldKeepsValueRead ==
    [][\A p \in Procs :
         Saves(p)
         => \A f \in UpdateFields :
               ~local[p].req.body[f].present
               => /\ todos'[local[p].id][f] = local[p].todo[f]
                  /\ (/\ local[p].id \in DOMAIN todos
                      /\ todos[local[p].id][f] = local[p].todo[f])
                     => todos'[local[p].id][f] = todos[local[p].id][f]]_vars

\* {"title":"Z"} has just been committed while an Update with the body
\* {"completed":true}, which read the title X before, stands at its write
C24_Witness ==
    /\ resp.op = "UpdateTodo" /\ resp.err = "nil"
    /\ resp.req.body = UpdateBody(Present("Z"), Absent(""), Absent(FALSE))
    /\ todos[resp.id].title = "Z"
    /\ \E p \in Procs \ {resp.proc} :
          /\ pc[p] = "update_save"
          /\ local[p].id = resp.id
          /\ local[p].req.body = UpdateBody(Absent(""), Absent(""), Present(TRUE))
          /\ local[p].todo.title = "X"
          /\ local[p].todo.completed

\* the request the step answers is a GetTodo or an UpdateTodo by a caller
\* who is not the owner of the todo stored under the request's id
AnswersForeign ==
    /\ resp'.op \in {"GetTodo", "UpdateTodo"} /\ resp'.service
    /\ pc[resp'.proc] = "idle"
    /\ resp'.id \in DOMAIN todos
    /\ todos[resp'.id].user_id # resp'.userID

\* C25: when the repository's fetch hands GetByID or Update a todo whose
\* owner is not the caller, the service returns UnauthorizedAccess, the
\* store is unchanged, and the response is the 404 not_found response of a
\* missing todo.
C25_ForeignFetchedIsNotFound ==
    [][AnswersForeign
       => /\ resp'.err = ErrUnauthorizedAccess
          /\ todos' = todos /\ nextTodoId' = nextTodoId
          /\ resp'.http = TodoNotFoundResponse]_vars

\* UnauthorizedAccess answered 500
C25_Witness ==
    /\ resp.op \in {"GetTodo", "UpdateTodo"} /\ resp.service
    /\ resp.err = ErrUnauthorizedAccess
    /\ resp.id \in DOMAIN todos /\ todos[resp.id].user_id # resp.userID
    /\ resp.http.status = StatusInternalServerError

\* the strings of a response's error body: slug, message and the values of
\* the details map
BodyStrings(http) == {http.error, http.message} \cup {http.details[k] : k \in DOMAIN http.details}

\* the errors of the store and of the driver, as the model has them
StoreErrors ==
    {ErrRecordNotFound, ErrForeignKey, ErrDuplicateKey} \cup (Database_HealthCheck \ {"nil"})

\* C26: no response body of any handler (register, login, the five todo
\* endpoints, health and readiness) has, in its slug, its message or its
\* details, the text of the error the handler got from the service or the
\* database, or the text of a store or driver error.
C26_NoInternalErrorText ==
    resp.op # ""
    => \A s \in BodyStrings(resp.http) :
          /\ s \notin StoreErrors
          /\ resp.err \notin {"", "nil"} => s # resp.err

\* a 503 of /health while the database refuses connections
C26_Witness ==
    /\ resp.op = "HealthCheck"
    /\ resp.http.status = StatusServiceUnavailable
    /\ resp.err \in {Wrap("database health check failed", e) : e \in PingErrors}
    /\ resp.http.details["database_error"] = resp.err

\* the orders, as sequences of ids, in which the store may list the todos
\* of user u
IdOrders(tbl, u) ==
    {[i \in DOMAIN l |-> l[i].id] : l \in TodoRepo_GetByUserID(tbl, u)}

\* C27: in every list GetTodos returns, a todo with a later creation time
\* stands before every todo with an earlier one; the store write of an
\* Update leaves the creation time of its todo as it was, and with it the
\* orders in which every user's todos are listed.
C27_NewestFirst ==
    /\ [](resp.http.kind = "list"
           => \A i, j \in DOMAIN resp.http.todos :
                 resp.http.todos[i].created_at > resp.http.todos[j].created_at => i < j)
    /\ [][\A p \in Procs :
            (Saves(p) /\ local[p].id \in DOMAIN todos)
            => /\ todos'[local[p].id].created_at = todos[local[p].id].created_at
               /\ \A u \in DOMAIN users : IdOrders(todos', u) = IdOrders(todos, u)]_vars

\* a list of two todos created at different times, the older one updated
\* since: it still stands second
C27_Witness ==
    /\ resp.op = "GetTodos" /\ resp.http.kind = "list"
    /\ Len(resp.http.todos) = 2
    /\ resp.http.todos[1].created_at > resp.http.todos[2].created_at
    /\ resp.http.todos[2].title = "Z"
    /\ resp.http.todos[1].title = "X"

(***************************************************************************)
(* C28: Register checks the email before the password: a call with an       *)
(* already registered email returns EmailAlreadyExists, whatever the        *)
(* password (too short and too long included); and a Register that returns  *)
(* its error before the store's create (existing email, password refused)   *)
(* leaves the stored users as they were.                                    *)
(***************************************************************************)
EmailStored(email) == \E i \in DOMAIN users : users[i].email = email

\* this step is a Register call returning from its first part
RegisterReturnsEarly(p) ==
    /\ pc[p] = "idle" /\ pc'[p] = "idle"
    /\ resp'.proc = p /\ resp'.op = "Register" /\ resp'.service

PasswordRefused == Wrap("password validation failed", ErrInvalidPassword)

RegisterRefusedForEmail ==
    /\ resp.op = "Register" /\ resp.handler /\ resp.service
    /\ resp.err # "nil"
    /\ EmailStored(resp.req.body.email)
    /\ ValidatePasswordStrength(resp.req.body.password) = "nil"

C29_DuplicateEmailIsConflict ==
    RegisterRefusedForEmail
    => /\ resp.err = ErrEmailAlreadyExists
       /\ resp.http.status = StatusConflict
       /\ resp.http.error = "email_exists"

\* the Register that lost the race: refused by the constraint, answered 500
C29_Witness ==
    /\ RegisterRefusedForEmail
    /\ resp.err = Wrap("failed to create user", ErrDuplicateKey)
    /\ resp.http = ErrorResponse(StatusInternalServerError, "registration_failed",
                                 "Failed to create user account")

(***************************************************************************)
(* C30: Update never changes a todo's identifier or owner. A todo enters    *)
(* the store under a fresh id with the Create's caller as owner; while it   *)
(* is stored no step changes its id or owner, so no todo moves from one     *)
(* user's list to another's; the record an Update holds between its read    *)
(* and its write carries the id and the owner it was read with, which is    *)
(* its caller, and a write that puts a deleted todo back puts it back under *)
(* that id and owner.                                                       *)
(***************************************************************************)
\* this step is a Create storing todo i for its caller
CreatesTodo(i) ==
    /\ i = nextTodoId /\ resp'.op = "CreateTodo" /\ resp'.http.status = StatusCreated
    /\ todos'[i].user_id = resp'.userID

\* this step is the store write of an Update that holds todo i
SavesTodo(i) ==
    \E p \in Procs : /\ Saves(p)
                     /\ local[p].todo.id = i
                     /\ todos'[i].user_id = local[p].todo.user_id

HeldTodosKeepOwner ==
    \A p \in Procs :
        pc[p] = "update_save"
        => /\ local[p].todo.id = local[p].id
           /\ local[p].todo.user_id = local[p].userID
           /\ local[p].id \in DOMAIN todos
                => todos[local[p].id].user_id = local[p].userID

C30_UpdateKeepsIdAndOwner ==
    /\ [](HeldTodosKeepOwner /\ \A i \in DOMAIN todos : todos[i].id = i)
    /\ [][/\ \A i \in DOMAIN todos \cap DOMAIN todos' :
                todos'[i].user_id = todos[i].user_id
          /\ \A i \in DOMAIN todos' \ DOMAIN todos : CreatesTodo(i) \/ SavesTodo(i)
          /\ \A u \in UserIds :
                {i \in DOMAIN todos' : todos'[i].user_id = u} \cap DOMAIN todos
                  \subseteq {i \in DOMAIN todos : todos[i].user_id = u}]_vars

\* an Update has just written a todo while the other user has todos too
C30_Witness ==
    /\ resp.op = "UpdateTodo" /\ resp.http.status = StatusOK
    /\ resp.id \in DOMAIN todos
    /\ todos[resp.id].user_id = resp.userID
    /\ todos[resp.id].title = "Z"
    /\ \E j \in DOMAIN todos : todos[j].user_id # resp.userID

====
